---- MODULE Spec2Model ----
(***************************************************************************)
(* Resume-parsing backend: the progress bus (ConnectionManager), the       *)
(* parsing pipeline (ParserOrchestrator.parse_resume) with its storage     *)
(* step, the background wrapper and the polling endpoint, and the upload   *)
(* endpoint with its content-hash deduplication.                           *)
(*                                                                         *)
(* Scheduling is asyncio's: one task runs at a time and another task runs  *)
(* only while the running one is suspended in an await.  Every action      *)
(* below is the code between two awaits.                                   *)
(***************************************************************************)
EXTENDS Integers, Sequences, FiniteSets, TLC

\* ------------------------------------------------------------------ bounds
NumChannels == 1
NumSubscribers == 3
NumRequests == 2
NumHashes   == 2
MaxShares   == 2
MaxTime     == 2
MaxAccess   == 1
MaxRows     == 2
MaxSkills   == 3
NumWriters  == 2

Channels == 1..NumChannels
Subscribers == 1..NumSubscribers
Requests == 1..NumRequests
Hashes   == 1..NumHashes
Jobs     == {"job-a", "job-b"}
Tokens   == 1..MaxShares
Writers  == 1..NumWriters

\* ----------------------------------------------------- program constants
MIN_TEXT_LENGTH == 100
MAX_FILE_SIZE   == 10485760

\* Lengths of the text a collaborator hands back: empty, just below the
\* threshold, and the threshold itself.
TextLens == {0, MIN_TEXT_LENGTH - 1, MIN_TEXT_LENGTH}

FileTypes == {".pdf", ".docx", ".txt", ".xyz"}

VARIABLES
  \* --- ConnectionManager and the sockets
  active_connections,  \* resume_id -> set of sockets; here the run's resume_id only
  ws,                  \* socket -> [st, ep]: transport state, endpoint loop alive
  bc,                  \* the broadcast_to_resume call in progress
  inbox,               \* observed socket -> the messages its client received, in order
  \* --- parse_resume
  pc,                  \* program point of the run
  exc,                 \* exception in flight ("none" when there is none)
  enable_ai,           \* argument enable_ai
  raw_text,            \* length of raw_text; -1 while it is None
  parsed_data,         \* the run's parsed_data ("none" before stage 2)
  enhanced_data,       \* result of enhance_with_ai, before it is returned
  published,           \* events handed to broadcast_to_resume, in order
  result,              \* value parse_resume returned ("none": nothing returned)
  \* --- what happened in the collaborators (history of the run)
  regular_text,        \* length the regular extraction gave; -1: none / raised
  ocr,                 \* "not_called" | "ok" | "failed"
  nlp_out,             \* stage 2's output
  ai,                  \* "not_called" | "ok" | "failed"
  file_ext,            \* suffix of the filename ("unset" until extract_text ran)
  fatal,               \* "none" | "stage1" | "stage2" | "storage": what raised
  \* --- storage
  use_db,              \* settings.USE_DATABASE
  db_status,           \* resumes.processing_status of the run's row ("none": no row)
  db_parsed,           \* parsed_resume_data rows of the run's resume
  mem_store,           \* _resume_store entry of the run's resume ("none": absent)
  \* --- background wrapper
  bg,                  \* "pending" | "running" | "done"
  \* --- upload endpoint
  up,                  \* request -> [pc, name, hash, existing, resp]
  resumes,             \* rows of table resumes written by upload: [id, hash, status]
  tasks,               \* background tasks started: sequence of [id, hash, st]
  \* --- shares
  now,                 \* the clock (datetime.utcnow), in days
  share_store,         \* _share_store: the grants in insertion order
  share_table,         \* table resume_shares: the rows in insertion order
  ret,                 \* the last share operation and what it answered
  revoked,             \* tokens for which revoke_share returned True
  pub,                 \* the GET /v1/share/{token} request between its awaits
  \* --- storage adapter
  resume_store,        \* _resume_store: resume_id -> stored dict (Missing: no entry)
  parsed_resume_data,  \* table parsed_resume_data: resume_id -> its rows, in order
  processing_status,   \* table resumes: resume_id -> processing_status ("none": no row)
  answer,              \* the last adapter or endpoint call and what it answered
  upd,                 \* the PUT /v1/resumes/{id} request between its read and its write
  puts                 \* concurrent PUT /v1/resumes/{id} requests, await by await

busVars  == <<active_connections, ws, bc, inbox>>
pipeVars == <<pc, exc, enable_ai, raw_text, parsed_data, enhanced_data, published,
              result, regular_text, ocr, nlp_out, ai, file_ext, fatal>>
storeVars == <<db_status, db_parsed, mem_store>>
upVars   == <<up, resumes, tasks>>
shareVars == <<now, share_store, share_table, ret, revoked, pub>>
adapterVars == <<resume_store, parsed_resume_data, processing_status, answer, upd, puts>>
vars == <<active_connections, ws, bc, inbox, pc, exc, enable_ai, raw_text, parsed_data,
          enhanced_data, published, result, regular_text, ocr, nlp_out, ai, file_ext, fatal,
          use_db,
          db_status, db_parsed, mem_store, bg, up, resumes, tasks,
          now, share_store, share_table, ret, revoked, pub,
          resume_store, parsed_resume_data, processing_status, answer, upd, puts>>

\* The resume_id of the run; upload_resume draws it with uuid4.
RunJob == "resume-1"

\* =====================================================================
\* ConnectionManager (app/api/websocket.py)
\* =====================================================================

Without(reg, resume_id) == [k \in DOMAIN reg \ {resume_id} |-> reg[k]]

\* ConnectionManager.connect, the registry part: create the set if the key is
\* missing, add the socket.
register(reg, websocket, resume_id) ==
  IF resume_id \in DOMAIN reg
  THEN [reg EXCEPT ![resume_id] = @ \cup {websocket}]
  ELSE [k \in DOMAIN reg \cup {resume_id} |->
          IF k = resume_id THEN {websocket} ELSE reg[k]]

\* A variant of disconnect without the cleanup of an empty set.
disconnect_keeping_key(reg, websocket, resume_id) ==
  IF resume_id \in DOMAIN reg
  THEN [reg EXCEPT ![resume_id] = @ \ {websocket}]
  ELSE reg

\* ConnectionManager.disconnect: discard, and delete the key of an empty set.
disconnect(reg, websocket, resume_id) ==
  IF resume_id \in DOMAIN reg
  THEN LET s == reg[resume_id] \ {websocket}
       IN  IF s = {} THEN Without(reg, resume_id) ELSE [reg EXCEPT ![resume_id] = s]
  ELSE reg

\* The cleanup loop at the end of broadcast_to_resume.
RECURSIVE disconnect_all(_, _, _)
disconnect_all(reg, conns, resume_id) ==
  IF conns = {} THEN reg
  ELSE LET c == CHOOSE x \in conns : TRUE
       IN  disconnect_all(disconnect(reg, c, resume_id), conns \ {c}, resume_id)

BcIdle == [st |-> "idle", used |-> 0, passed |-> {}, cur |-> 0, disconnected |-> {},
           delivered |-> {}, snapshot |-> {}, detached |-> FALSE]

\* The set object the for loop of broadcast_to_resume iterates: the registered
\* set itself, not a copy.  Once disconnect deleted the key the loop still
\* holds the old, now empty, object (detached); a later connect creates a new one.
IteratedSet(b, reg, resume_id) ==
  IF b.detached \/ resume_id \notin DOMAIN reg THEN {} ELSE reg[resume_id]

\* The for loop of broadcast_to_resume from one `next` of the set iterator up
\* to the next await (a send_json) or to the end of the call.  Result: the set
\* of records the call can be in then.
\*  - CPython's set iterator raises RuntimeError("Set changed size during
\*    iteration") when the size differs from the size at the start of the loop;
\*    the for statement is outside the try, so the error leaves the call and
\*    the cleanup loop does not run.
\*  - Otherwise it yields an entry not yet passed.  An entry added during the
\*    walk is yielded or not, depending on its slot; an entry of the start that
\*    is still present is always yielded.  (No table resize happens below five
\*    used slots, so no entry is yielded twice within the bounds.)
\*  - A socket whose client_state reads 'DISCONNECTED' is marked without a send.
RECURSIVE Walk(_, _, _, _)
Walk(b, reg, resume_id, closed) ==
  LET live == IteratedSet(b, reg, resume_id)
      rest == live \ b.passed
  IN  IF Cardinality(live) # b.used
      THEN {[b EXCEPT !.st = "raised", !.cur = 0]}
      ELSE (IF rest \subseteq (live \ b.snapshot)
            THEN {[b EXCEPT !.st = "returned", !.cur = 0]} ELSE {})
           \cup
           UNION { IF c \in closed
                   THEN Walk([b EXCEPT !.passed = @ \cup {c},
                                       !.disconnected = @ \cup {c}],
                             reg, resume_id, closed)
                   ELSE {[b EXCEPT !.st = "sending", !.cur = c,
                                   !.passed = @ \cup {c}]}
                 : c \in rest }

\* broadcast_to_resume from its call to its first await or its end.
broadcast_begin(reg, resume_id, closed) ==
  IF resume_id \in DOMAIN reg
  THEN Walk([BcIdle EXCEPT !.used = Cardinality(reg[resume_id]),
                           !.snapshot = reg[resume_id]],
            reg, resume_id, closed)
  ELSE {[BcIdle EXCEPT !.st = "returned"]}

\* The registry when the call reaches state nb: the cleanup loop runs only
\* when the walk ended normally.
after_walk(reg, nb, resume_id) ==
  IF nb.st = "returned" THEN disconnect_all(reg, nb.disconnected, resume_id) ELSE reg

ClosedSockets == {c \in DOMAIN ws : ws[c].st = "closed"}

\* =====================================================================
\* ProgressUpdate (app/models/progress.py)
\* =====================================================================

Clamp(progress) == IF progress < 0 THEN 0 ELSE IF progress > 100 THEN 100 ELSE progress

ProgressUpdate(stage, progress) ==
  [stage |-> stage, progress |-> Clamp(progress), data |-> "none"]

CompleteProgress(data) == [stage |-> "complete", progress |-> Clamp(100), data |-> data]

ErrorProgress(error_code) == [stage |-> "error", progress |-> Clamp(0), data |-> error_code]

\* =====================================================================
\* Collaborators (text_extractor.py, ocr_extractor.py, nlp_extractor.py,
\* ai_extractor.py).  A text is its length; a result is a value or a raise.
\* =====================================================================

Ok(v)    == [ok |-> TRUE,  val |-> v, exc |-> "none"]
Raise(e) == [ok |-> FALSE, val |-> -1, exc |-> e]

is_text_sufficient(len) == IF len > 0 THEN len >= MIN_TEXT_LENGTH ELSE FALSE

\* A fallback that keeps the regular text when OCR fails instead of raising.
extract_text_with_ocr_keeps_text(regular, ocr_out) ==
  IF regular >= 0 /\ is_text_sufficient(regular) THEN Ok(regular)
  ELSE IF ocr_out < 0 THEN Ok(IF regular >= 0 THEN regular ELSE 0) ELSE Ok(ocr_out)

\* extract_text_with_ocr(file_path, file_content, regular_text); ocr_out is what
\* _extract_with_ocr does when called: a length, or -1 when it raises.
extract_text_with_ocr(regular, ocr_out) ==
  IF regular >= 0 /\ is_text_sufficient(regular) THEN Ok(regular)
  ELSE IF ocr_out < 0 THEN Raise("OCRExtractionError") ELSE Ok(ocr_out)

OcrCalled(ext, regular) == ext = ".pdf" /\ regular >= 0 /\ ~is_text_sufficient(regular)

\* extract_text(file_path, file_content); regular is what the format's own
\* extraction gives: a length, or -1 when it raises TextExtractionError.
extract_text(ext, regular, ocr_out) ==
  IF ext = ".pdf"
  THEN IF regular < 0 THEN Raise("TextExtractionError")
       ELSE extract_text_with_ocr(regular, ocr_out)
  ELSE IF ext \in {".docx", ".doc", ".txt"}
  THEN IF regular < 0 THEN Raise("TextExtractionError") ELSE Ok(regular)
  ELSE Raise("TextExtractionError")

\* extract_entities(text); how: the spaCy model is missing, processing raises,
\* or the entities are extracted.
extract_entities(len, how) ==
  IF how = "no_model" THEN Ok("empty_structure")
  ELSE IF how = "raise" THEN Raise("NLPEntityExtractionError")
  ELSE IF len = 0 THEN Ok("empty_record") ELSE Ok("nlp_record")

\* enhance_with_ai(raw_text, initial_data); how: no API key, the API call fails
\* (AIEnhancementError, caught inside), the answer is merged, or an error that
\* is not an AIEnhancementError escapes (json.loads on the extracted span,
\* _merge_data on an answer that is no object).
enhance_with_ai(initial_data, how) ==
  IF how = "not_configured" THEN Ok(initial_data)
  ELSE IF how = "api_error" THEN Ok(initial_data)
  ELSE IF how = "merged" THEN Ok("ai_record")
  ELSE Raise("Exception")

\* =====================================================================
\* Storage (storage_adapter.py, database_storage.py, core/storage.py)
\* =====================================================================

\* The row database_storage.save_parsed_data adds to parsed_resume_data.
ParsedRow(data, ai_enhanced) == [data |-> data, ai_enhanced |-> ai_enhanced]

\* StorageAdapter.get_parsed_data / core.storage.get_parsed_resume for the
\* run's resume: "none" when nothing is stored.
get_parsed_data ==
  IF use_db
  THEN IF Len(db_parsed) = 0 THEN "none" ELSE db_parsed[1].data
  ELSE mem_store

\* GET /v1/resumes/{resume_id}: the status code of the answer.
get_resume ==
  IF use_db
  THEN IF db_status = "none" THEN "404"
       ELSE IF db_status = "processing" THEN "202"
       ELSE IF get_parsed_data = "none" THEN "404" ELSE "200"
  ELSE IF get_parsed_data = "none" THEN "404" ELSE "200"

\* =====================================================================
\* ParserOrchestrator.parse_resume (app/services/parser_orchestrator.py)
\* =====================================================================

SendPoints == {"s1_start", "s1_30", "s1_100", "s1_fail", "s2_start", "s2_60",
               "s2_100", "s2_fail", "s3_70", "s3_100", "s3_skip", "s4", "err"}

\* Program points at which the run is suspended in an await that is not a send.
AwaitPoints == {"idle", "x1", "x2", "x3", "save", "save2", "returned", "raised"}

error_code(e) == IF e = "TextExtractionError" THEN "TEXT_EXTRACTION_ERROR" ELSE "PARSE_ERROR"

\* The event each _send_progress / _send_complete / _send_error call builds.
EventAt(p) ==
  CASE p = "s1_start" -> ProgressUpdate("text_extraction", 10)
    [] p = "s1_30"    -> ProgressUpdate("text_extraction", 30)
    [] p = "s1_100"   -> ProgressUpdate("text_extraction", 100)
    [] p = "s1_fail"  -> ProgressUpdate("text_extraction", 0)
    [] p = "s2_start" -> ProgressUpdate("nlp_parsing", 40)
    [] p = "s2_60"    -> ProgressUpdate("nlp_parsing", 60)
    [] p = "s2_100"   -> ProgressUpdate("nlp_parsing", 100)
    [] p = "s2_fail"  -> ProgressUpdate("nlp_parsing", 0)
    [] p = "s3_70"    -> ProgressUpdate("ai_enhancement", 70)
    [] p = "s3_100"   -> ProgressUpdate("ai_enhancement", 100)
    [] p = "s3_skip"  -> ProgressUpdate("ai_enhancement", 100)
    [] p = "s4"       -> CompleteProgress(parsed_data)
    [] p = "err"      -> ErrorProgress(error_code(exc))

\* Stage 3 runs only if enable_ai and raw_text is non-empty.
AfterStage2 == IF enable_ai /\ raw_text > 0 THEN "s3_70" ELSE "save"

\* Where the run goes when the broadcast at p returned.
NextOnReturn(p) ==
  CASE p = "s1_start" -> "s1_30"
    [] p = "s1_30"    -> "x1"
    [] p = "s1_100"   -> "s2_start"
    [] p = "s1_fail"  -> "err"
    [] p = "s2_start" -> "s2_60"
    [] p = "s2_60"    -> "x2"
    [] p = "s2_100"   -> AfterStage2
    [] p = "s2_fail"  -> "err"
    [] p = "s3_70"    -> "x3"
    [] p = "s3_100"   -> "save"
    [] p = "s3_skip"  -> "save"
    [] p = "s4"       -> "returned"
    [] p = "err"      -> "raised"

\* A variant in which the handler reached from a failed send of stage 2 is
\* the one of stage 1.
NextOnRaise_stage1_handler(p) ==
  CASE p \in {"s1_30", "s1_100", "s2_60", "s2_100"} -> "s1_fail"
    [] p \in {"s3_70", "s3_100"}                   -> "s3_skip"
    [] p = "err"                                   -> "raised"
    [] OTHER                                       -> "err"

\* Where the run goes when the broadcast at p raised: the handler of the
\* innermost try around the call.
NextOnRaise(p) ==
  CASE p \in {"s1_30", "s1_100"}          -> "s1_fail"
    [] p \in {"s2_60", "s2_100"}          -> "s2_fail"
    [] p \in {"s3_70", "s3_100"}          -> "s3_skip"
    [] p = "err"                          -> "raised"
    [] OTHER                              -> "err"

AtAwait == bc.st = "sending" \/ (bc.st = "idle" /\ pc \in AwaitPoints)

\* ---------------------------------------------------------------- sockets

\* The event of the broadcast in progress.
LastEvent == published[Len(published)]

\* The message ConnectionManager.connect sends to the socket it registered.
ConnectionEstablished ==
  [stage |-> "connection_established", progress |-> 0, data |-> "none"]

\* send_json on an open socket completed: the client has the message.  Only
\* observed sockets have an inbox.
deliver(boxes, websocket, message) ==
  IF websocket \in DOMAIN boxes
  THEN [boxes EXCEPT ![websocket] = Append(@, message)]
  ELSE boxes

\* websocket_endpoint up to its first receive: ConnectionManager.connect
\* (accept, register, acknowledgment through send_personal_message, which
\* swallows every error).
Connect(c) ==
  /\ AtAwait
  /\ ws[c].st = "fresh"
  /\ ws' = [ws EXCEPT ![c] = [st |-> "open", ep |-> TRUE]]
  /\ active_connections' = register(active_connections, c, RunJob)
  /\ inbox' = deliver(inbox, c, ConnectionEstablished)
  /\ UNCHANGED <<bc, pipeVars, use_db, storeVars, bg, upVars, shareVars, adapterVars>>

\* The client goes away: from now on the socket's client_state reads
\* 'DISCONNECTED' (closed) or send_json raises (broken).
Drop(c) ==
  /\ AtAwait
  /\ ws[c].st = "open"
  /\ \E how \in {"closed", "broken"} : ws' = [ws EXCEPT ![c].st = how]
  /\ UNCHANGED <<active_connections, bc, inbox, pipeVars, use_db, storeVars, bg, upVars, shareVars, adapterVars>>

\* websocket_endpoint: receive_text raised, the handler calls disconnect.
EndpointDisconnect(c) ==
  /\ AtAwait
  /\ ws[c].st \in {"closed", "broken"}
  /\ ws[c].ep
  /\ ws' = [ws EXCEPT ![c].ep = FALSE]
  /\ active_connections' = disconnect(active_connections, c, RunJob)
  /\ bc' = IF bc.st = "sending" /\ RunJob \notin DOMAIN active_connections'
           THEN [bc EXCEPT !.detached = TRUE] ELSE bc
  /\ UNCHANGED <<inbox, pipeVars, use_db, storeVars, bg, upVars, shareVars, adapterVars>>

\* ------------------------------------------------------------- broadcasts

\* _send_progress / _send_complete / _send_error: build the event and call
\* broadcast_to_resume, which runs to its first send or to its end.
PipeSend ==
  /\ pc \in SendPoints
  /\ bc.st = "idle"
  /\ published' = Append(published, EventAt(pc))
  /\ \E nb \in broadcast_begin(active_connections, RunJob, ClosedSockets) :
        /\ bc' = nb
        /\ active_connections' = after_walk(active_connections, nb, RunJob)
  /\ UNCHANGED <<ws, inbox, pc, exc, enable_ai, raw_text, parsed_data, enhanced_data, result,
                 regular_text, ocr, nlp_out, ai, file_ext, fatal, use_db, storeVars, bg, upVars, shareVars, adapterVars>>

\* The send_json the broadcast was suspended in completes or raises; the
\* loop goes on to the next send or to the end of the call.
send_outcome(b, open) ==
  IF open THEN [b EXCEPT !.delivered = @ \cup {b.cur}]
  ELSE [b EXCEPT !.disconnected = @ \cup {b.cur}]

BroadcastResume ==
  /\ bc.st = "sending"
  /\ \E nb \in Walk(send_outcome(bc, ws[bc.cur].st = "open"), active_connections,
                    RunJob, ClosedSockets) :
        /\ bc' = nb
        /\ active_connections' = after_walk(active_connections, nb, RunJob)
  /\ inbox' = IF ws[bc.cur].st = "open" THEN deliver(inbox, bc.cur, LastEvent) ELSE inbox
  /\ UNCHANGED <<ws, pipeVars, use_db, storeVars, bg, upVars, shareVars, adapterVars>>

\* broadcast_to_resume returned, or raised, into parse_resume.
PipeAfterSend ==
  /\ pc \in SendPoints
  /\ bc.st \in {"returned", "raised"}
  /\ bc' = BcIdle
  /\ pc' = IF bc.st = "returned" THEN NextOnReturn(pc) ELSE NextOnRaise(pc)
  /\ exc' = IF bc.st = "raised" THEN "RuntimeError"
            ELSE IF pc = "s3_skip" THEN "none" ELSE exc
  /\ parsed_data' = IF bc.st = "returned" /\ pc = "s3_100" THEN enhanced_data
                    ELSE parsed_data
  /\ result' = IF bc.st = "returned" /\ pc = "s4" THEN parsed_data ELSE result
  /\ UNCHANGED <<active_connections, ws, inbox, enable_ai, raw_text, enhanced_data, published,
                 regular_text, ocr, nlp_out, ai, file_ext, fatal, use_db, storeVars, bg, upVars, shareVars, adapterVars>>

\* ------------------------------------------------------------ the stages

\* parse_resume_background is scheduled and calls parse_resume.
BackgroundStart ==
  /\ bg = "pending"
  /\ bc.st = "idle"
  /\ bg' = "running"
  /\ pc' = "s1_start"
  /\ UNCHANGED <<busVars, exc, enable_ai, raw_text, parsed_data, enhanced_data,
                 published, result, regular_text, ocr, nlp_out, ai, file_ext, fatal, use_db,
                 storeVars, upVars, shareVars, adapterVars>>

\* Stage 1: await extract_text(filename, file_content).
ExtractText ==
  /\ pc = "x1"
  /\ \E ext \in FileTypes, regular \in TextLens \cup {-1}, ocr_out \in TextLens \cup {-1} :
       LET r == extract_text(ext, regular, ocr_out)
       IN  /\ ~OcrCalled(ext, regular) => ocr_out = -1
           /\ ext = ".xyz" => regular = -1
           /\ file_ext' = ext
           /\ regular_text' = regular
           /\ ocr' = IF ~OcrCalled(ext, regular) THEN "not_called"
                     ELSE IF ocr_out < 0 THEN "failed" ELSE "ok"
           /\ raw_text' = IF r.ok THEN r.val ELSE raw_text
           /\ exc' = r.exc
           /\ fatal' = IF r.ok THEN fatal ELSE "stage1"
           /\ pc' = IF r.ok THEN "s1_100" ELSE "s1_fail"
  /\ UNCHANGED <<busVars, enable_ai, parsed_data, enhanced_data, published, result,
                 nlp_out, ai, use_db, storeVars, bg, upVars, shareVars, adapterVars>>

\* Stage 2: asyncio.sleep, then extract_entities(text).
ExtractEntities ==
  /\ pc = "x2"
  /\ \E how \in {"ok", "no_model", "raise"} :
       LET r == extract_entities(raw_text, how)
       IN  /\ parsed_data' = IF r.ok THEN r.val ELSE parsed_data
           /\ nlp_out' = IF r.ok THEN r.val ELSE nlp_out
           /\ exc' = r.exc
           /\ fatal' = IF r.ok THEN fatal ELSE "stage2"
           /\ pc' = IF r.ok THEN "s2_100" ELSE "s2_fail"
  /\ UNCHANGED <<busVars, enable_ai, raw_text, enhanced_data, published, result,
                 regular_text, ocr, ai, file_ext, use_db, storeVars, bg, upVars, shareVars, adapterVars>>

\* Stage 3: asyncio.sleep, then await enhance_with_ai(raw_text, parsed_data).
EnhanceWithAi ==
  /\ pc = "x3"
  /\ \E how \in {"not_configured", "api_error", "merged", "raise"} :
       LET r == enhance_with_ai(parsed_data, how)
       IN  /\ enhanced_data' = IF r.ok THEN r.val ELSE enhanced_data
           /\ ai' = IF r.ok THEN "ok" ELSE "failed"
           /\ exc' = r.exc
           /\ pc' = IF r.ok THEN "s3_100" ELSE "s3_skip"
  /\ UNCHANGED <<busVars, enable_ai, raw_text, parsed_data, published, result,
                 regular_text, ocr, nlp_out, file_ext, fatal, use_db, storeVars, bg,
                 upVars, shareVars, adapterVars>>

\* Stage 4, in-memory: save_parsed_resume(resume_id, parsed_data).
SaveInMemory ==
  /\ pc = "save"
  /\ ~use_db
  /\ mem_store' = parsed_data
  /\ pc' = "s4"
  /\ UNCHANGED <<busVars, exc, enable_ai, raw_text, parsed_data, enhanced_data,
                 published, result, regular_text, ocr, nlp_out, ai, file_ext, fatal, use_db,
                 db_status, db_parsed, bg, upVars, shareVars, adapterVars>>

\* Stage 4, database, first half of StorageAdapter.save_parsed_data: validate,
\* read the row, create it with status complete if it is missing, set the
\* status to complete and commit.  Any of the statements may raise before
\* the commit.
SaveStatus ==
  /\ pc = "save"
  /\ use_db
  /\ \/ /\ db_status' = "complete"
        /\ pc' = "save2"
        /\ exc' = exc
     \/ /\ db_status' = db_status
        /\ pc' = "err"
        /\ exc' = "Exception"
  /\ fatal' = IF pc' = "err" THEN "storage" ELSE fatal
  /\ UNCHANGED <<busVars, enable_ai, raw_text, parsed_data, enhanced_data, published,
                 result, regular_text, ocr, nlp_out, ai, file_ext, use_db, db_parsed,
                 mem_store, bg, upVars, shareVars, adapterVars>>

\* Second half: db_service.save_parsed_data adds the row, commits, refreshes.
\* The commit may fail; the refresh may fail after the commit.
SaveRecord ==
  /\ pc = "save2"
  /\ \/ /\ db_parsed' = Append(db_parsed, ParsedRow(parsed_data, enable_ai))
        /\ pc' = "s4"
        /\ exc' = exc
     \/ /\ db_parsed' = db_parsed
        /\ pc' = "err"
        /\ exc' = "Exception"
     \/ /\ db_parsed' = Append(db_parsed, ParsedRow(parsed_data, enable_ai))
        /\ pc' = "err"
        /\ exc' = "Exception"
  /\ fatal' = IF pc' = "err" THEN "storage" ELSE fatal
  /\ UNCHANGED <<busVars, enable_ai, raw_text, parsed_data, enhanced_data, published,
                 result, regular_text, ocr, nlp_out, ai, file_ext, use_db, db_status,
                 mem_store, bg, upVars, shareVars, adapterVars>>

\* parse_resume_background: parse_resume returned, or raised and the handler
\* printed the error.
BackgroundEnd ==
  /\ bg = "running"
  /\ pc \in {"returned", "raised"}
  /\ bg' = "done"
  /\ UNCHANGED <<busVars, pipeVars, use_db, storeVars, upVars, shareVars, adapterVars>>

\* ------------------------------------------------------------------ Init

NoResp == [code |-> "none", id |-> 0, status |-> "none"]

UpIdle == [pc |-> "new", name |-> "none", hash |-> 0, existing |-> 0, resp |-> NoResp]

InitUpload ==
  /\ up = [r \in Requests |-> UpIdle]
  /\ resumes = {}
  /\ tasks = <<>>

\* The resume ids the adapter is called with.  uuid.UUID(text) removes
\* "urn:", "uuid:", braces and hyphens, then wants 32 characters, all of them
\* hexadecimal digits: an id keeps its text, the number of characters left and
\* whether they are all hexadecimal digits.
ResumeIds ==
  { [text |-> "test-123", stripped |-> 7, hexdigits |-> FALSE],
    [text |-> "550e8400-e29b-41d4-a716-446655440000", stripped |-> 32, hexdigits |-> TRUE] }

\* resume_id not in _resume_store.
Missing == [missing |-> TRUE]

NoAnswer == [op |-> "none"]
UpdIdle == [pc |-> "idle"]
PutIdle == [pc |-> "idle"]

\* Empty _resume_store, no row in parsed_resume_data or in resumes.
InitAdapter ==
  /\ resume_store = [i \in ResumeIds |-> Missing]
  /\ parsed_resume_data = [i \in ResumeIds |-> << >>]
  /\ processing_status = [i \in ResumeIds |-> "none"]
  /\ answer = NoAnswer
  /\ upd = UpdIdle
  /\ puts = [w \in Writers |-> PutIdle]

\* No share operation yet; empty _share_store and empty table resume_shares.
\* No public access is running.
PubIdle == [pc |-> "idle", share_token |-> 0, share |-> [share_token |-> 0]]

InitShare ==
  /\ now = 0
  /\ share_store = << >>
  /\ share_table = << >>
  /\ ret = [op |-> "none", arg |-> 0, has_data |-> FALSE, out |-> "none"]
  /\ revoked = {}
  /\ pub = PubIdle

Init ==
  /\ active_connections = << >>
  /\ ws = [c \in Channels |-> [st |-> "fresh", ep |-> FALSE]]
  /\ bc = BcIdle
  /\ inbox = << >>
  /\ pc = "idle"
  /\ exc = "none"
  /\ enable_ai \in BOOLEAN
  /\ raw_text = -1
  /\ parsed_data = "none"
  /\ enhanced_data = "none"
  /\ published = << >>
  /\ result = "none"
  /\ regular_text = -1
  /\ ocr = "not_called"
  /\ nlp_out = "none"
  /\ ai = "not_called"
  /\ file_ext = "unset"
  /\ fatal = "none"
  /\ use_db \in BOOLEAN
  /\ db_status \in (IF use_db THEN {"processing", "none"} ELSE {"none"})
  /\ db_parsed = << >>
  /\ mem_store = "none"
  /\ bg = "pending"
  /\ InitUpload
  /\ InitShare
  /\ InitAdapter

Next ==
  \/ \E c \in Channels : Connect(c)
  \/ \E c \in Channels : Drop(c)
  \/ \E c \in Channels : EndpointDisconnect(c)
  \/ BackgroundStart
  \/ PipeSend
  \/ BroadcastResume
  \/ PipeAfterSend
  \/ ExtractText
  \/ ExtractEntities
  \/ EnhanceWithAi
  \/ SaveInMemory
  \/ SaveStatus
  \/ SaveRecord
  \/ BackgroundEnd

Spec == Init /\ [][Next]_vars

\* =====================================================================
\* POST /v1/resumes/upload (app/api/resumes.py)
\* =====================================================================

ALLOWED_EXTENSIONS == {"pdf", "docx", "doc", "txt"}

ALLOWED_MIME_TYPES ==
  {"application/pdf",
   "application/vnd.openxmlformats-officedocument.wordprocessingml.document",
   "application/msword", "text/plain"}

\* The uploads tried: [name, ext, mime]; ext is filename.split(".")[-1].lower().
Uploads ==
  { [name |-> "cv.pdf",    ext |-> "pdf", mime |-> "application/pdf"],
    [name |-> "other.txt", ext |-> "txt", mime |-> "text/plain"],
    [name |-> "cv.exe",    ext |-> "exe", mime |-> "application/pdf"],
    [name |-> "scan.pdf",  ext |-> "pdf", mime |-> "image/png"] }

Sizes == {0, MAX_FILE_SIZE, MAX_FILE_SIZE + 1}

\* _validate_file_type(filename, content_type)
validate_file_type(ext, mime) == ext \in ALLOWED_EXTENSIONS /\ mime \in ALLOWED_MIME_TYPES

\* select(Resume).where(Resume.file_hash == file_hash)
RowsWithHash(rows, h) == {row \in rows : row.hash = h}

\* The unique constraint on resumes.file_hash (alembic initial schema): the
\* commit of a second row with the same hash fails.
insert_allowed(rows, h) == RowsWithHash(rows, h) = {}

Accepted(id, status) == [code |-> "202", id |-> id, status |-> status]

Rejected(code) == [code |-> code, id |-> 0, status |-> "none"]

\* The answer for a file that is already in the table.
existing_response(row) ==
  Accepted(row.id, IF row.status = "complete" THEN "already_processed" ELSE "processing")

\* Validation of type and size, the read of the content, uuid4 (the request's
\* own number stands for the fresh id) and the hash.
UploadReceive(r) ==
  /\ up[r].pc = "new"
  /\ \E u \in Uploads, size \in Sizes, h \in Hashes :
       IF ~validate_file_type(u.ext, u.mime) \/ size > MAX_FILE_SIZE
       THEN up' = [up EXCEPT ![r] = [@ EXCEPT !.pc = "done", !.name = u.name,
                                              !.resp = Rejected("400")]]
       ELSE up' = [up EXCEPT ![r] = [@ EXCEPT !.pc = "read", !.name = u.name,
                                              !.hash = h]]
  /\ UNCHANGED <<adapterVars, shareVars, busVars, pipeVars, use_db, storeVars, bg, resumes, tasks>>

\* A variant that awaits the run inside the handler: the task is started and
\* the request is answered only after it.
UploadInMemory_awaiting_run(r) ==
  /\ up[r].pc = "read"
  /\ ~use_db
  /\ tasks' = Append(tasks, [id |-> r, hash |-> up[r].hash, st |-> "queued"])
  /\ up' = [up EXCEPT ![r] = [@ EXCEPT !.pc = "awaiting"]]
  /\ UNCHANGED <<adapterVars, shareVars, busVars, pipeVars, use_db, storeVars, bg, resumes>>

\* USE_DATABASE off: the database block is skipped; the task is started and
\* the request answered.
UploadInMemory(r) ==
  /\ up[r].pc = "read"
  /\ ~use_db
  /\ tasks' = Append(tasks, [id |-> r, hash |-> up[r].hash, st |-> "queued"])
  /\ up' = [up EXCEPT ![r] = [@ EXCEPT !.pc = "done",
                                       !.resp = Accepted(r, "processing")]]
  /\ UNCHANGED <<adapterVars, shareVars, busVars, pipeVars, use_db, storeVars, bg, resumes>>

\* USE_DATABASE on: the duplicate check, await db.execute(select ...).
UploadSelect(r) ==
  /\ up[r].pc = "read"
  /\ use_db
  /\ LET found == RowsWithHash(resumes, up[r].hash)
     IN  IF found # {}
         THEN up' = [up EXCEPT ![r] = [@ EXCEPT !.pc = "found",
                        !.existing = (CHOOSE row \in found : TRUE).id]]
         ELSE up' = [up EXCEPT ![r] = [@ EXCEPT !.pc = "insert"]]
  /\ UNCHANGED <<adapterVars, shareVars, busVars, pipeVars, use_db, storeVars, bg, resumes, tasks>>

\* The file is known: await adapter.get_parsed_data, then the existing id is
\* returned and no task is started.
UploadExisting(r) ==
  /\ up[r].pc = "found"
  /\ LET row == CHOOSE x \in resumes : x.id = up[r].existing
     IN  up' = [up EXCEPT ![r] = [@ EXCEPT !.pc = "done",
                                           !.resp = existing_response(row)]]
  /\ UNCHANGED <<adapterVars, shareVars, busVars, pipeVars, use_db, storeVars, bg, resumes, tasks>>

\* The file is new: db.add(resume), await db.commit().  On success the task is
\* started and the request answered; an IntegrityError leaves the handler
\* (get_session rolls back and re-raises) and the request ends with 500.
UploadInsert(r) ==
  /\ up[r].pc = "insert"
  /\ IF insert_allowed(resumes, up[r].hash)
     THEN /\ resumes' = resumes \cup
                          {[id |-> r, hash |-> up[r].hash, status |-> "processing"]}
          /\ tasks' = Append(tasks, [id |-> r, hash |-> up[r].hash, st |-> "queued"])
          /\ up' = [up EXCEPT ![r] = [@ EXCEPT !.pc = "done",
                                               !.resp = Accepted(r, "processing")]]
     ELSE /\ up' = [up EXCEPT ![r] = [@ EXCEPT !.pc = "done", !.resp = Rejected("500")]]
          /\ UNCHANGED <<resumes, tasks>>
  /\ UNCHANGED <<adapterVars, shareVars, busVars, pipeVars, use_db, storeVars, bg>>

\* A started task runs parse_resume_background to its end.  A run that
\* completes sets the row's status to complete (SaveStatus); a run that fails
\* leaves the row as it is (BackgroundEnd).
TaskRun(i) ==
  /\ i \in 1..Len(tasks)
  /\ tasks[i].st = "queued"
  /\ tasks' = [tasks EXCEPT ![i].st = "done"]
  /\ \/ resumes' = {IF row.id = tasks[i].id THEN [row EXCEPT !.status = "complete"]
                    ELSE row : row \in resumes}
     \/ resumes' = resumes
  /\ UNCHANGED <<adapterVars, shareVars, busVars, pipeVars, use_db, storeVars, bg, up>>

InitUploadSpec ==
  /\ active_connections = << >>
  /\ ws = [c \in Channels |-> [st |-> "fresh", ep |-> FALSE]]
  /\ bc = BcIdle
  /\ inbox = << >>
  /\ pc = "idle"
  /\ exc = "none"
  /\ enable_ai = TRUE
  /\ raw_text = -1
  /\ parsed_data = "none"
  /\ enhanced_data = "none"
  /\ published = << >>
  /\ result = "none"
  /\ regular_text = -1
  /\ ocr = "not_called"
  /\ nlp_out = "none"
  /\ ai = "not_called"
  /\ file_ext = "unset"
  /\ fatal = "none"
  /\ use_db \in BOOLEAN
  /\ db_status = "none"
  /\ db_parsed = << >>
  /\ mem_store = "none"
  /\ bg = "pending"
  /\ InitUpload
  /\ InitShare
  /\ InitAdapter

NextUpload ==
  \/ \E r \in Requests : UploadReceive(r)
  \/ \E r \in Requests : UploadInMemory(r)
  \/ \E r \in Requests : UploadSelect(r)
  \/ \E r \in Requests : UploadExisting(r)
  \/ \E r \in Requests : UploadInsert(r)
  \/ \E i \in 1..NumRequests : TaskRun(i)

SpecUpload == InitUploadSpec /\ [][NextUpload]_vars

\* =====================================================================
\* Shares (app/core/share_storage.py, app/services/database_share_storage.py,
\* app/api/shares.py).  The flag selects the in-memory backend (share_store)
\* or the database one (share_table); ret keeps what the last operation
\* answered.
\* =====================================================================

\* expires_in_days of create_share, in the runs tried.
ExpiresIn == {1}

\* None.
NoShare == [share_token |-> 0]

\* The grant create_share builds: share_metadata / ResumeShare(...).
NewShare(share_token, resume_id, expires_in_days, t) ==
  [share_token |-> share_token, resume_id |-> resume_id, created_at |-> t,
   expires_at |-> t + expires_in_days, access_count |-> 0, is_active |-> TRUE]

\* Positions of the grants with this token (at most one: uuid4, unique column).
Holding(store, share_token) ==
  {i \in 1..Len(store) : store[i].share_token = share_token}

\* ---- in-memory backend (share_storage.py)

\* A create that also re-activates the older grants of the resume.
create_share_reactivating(store, share_token, resume_id, expires_in_days, t) ==
  Append([i \in 1..Len(store) |->
            IF store[i].resume_id = resume_id THEN [store[i] EXCEPT !.is_active = TRUE]
            ELSE store[i]],
         NewShare(share_token, resume_id, expires_in_days, t))

create_share_inmemory(store, share_token, resume_id, expires_in_days, t) ==
  Append(store, NewShare(share_token, resume_id, expires_in_days, t))

get_share_inmemory(store, share_token) ==
  IF Holding(store, share_token) = {} THEN NoShare
  ELSE store[CHOOSE i \in Holding(store, share_token) : TRUE]

increment_access_inmemory(store, share_token) ==
  [store |-> [i \in 1..Len(store) |->
                IF store[i].share_token = share_token
                THEN [store[i] EXCEPT !.access_count = @ + 1] ELSE store[i]],
   ok |-> Holding(store, share_token) # {}]

\* A revoke that flips the flag instead of clearing it.
revoke_share_toggling(store, share_token) ==
  [store |-> [i \in 1..Len(store) |->
                IF store[i].share_token = share_token
                THEN [store[i] EXCEPT !.is_active = ~@] ELSE store[i]],
   ok |-> Holding(store, share_token) # {}]

revoke_share_inmemory(store, share_token) ==
  [store |-> [i \in 1..Len(store) |->
                IF store[i].share_token = share_token
                THEN [store[i] EXCEPT !.is_active = FALSE] ELSE store[i]],
   ok |-> Holding(store, share_token) # {}]

is_share_valid_inmemory(store, share_token, t) ==
  LET share == get_share_inmemory(store, share_token)
  IN  IF share = NoShare THEN FALSE
      ELSE IF ~share.is_active THEN FALSE
      ELSE IF t > share.expires_at THEN FALSE
      ELSE TRUE

\* _get_share_token_by_resume_id, in-memory branch: the first entry of the
\* dict, in insertion order, whose resume_id matches; 0 is None.
get_share_token_by_resume_id_inmemory(store, resume_id) ==
  LET hits == {i \in 1..Len(store) : store[i].resume_id = resume_id}
  IN  IF hits = {} THEN 0
      ELSE store[CHOOSE i \in hits : \A j \in hits : i <= j].share_token

\* ---- database backend (database_share_storage.py)

create_share_db(rows, share_token, resume_id, expires_in_days, t) ==
  Append(rows, NewShare(share_token, resume_id, expires_in_days, t))

get_share_db(rows, share_token) ==
  IF Holding(rows, share_token) = {} THEN NoShare
  ELSE rows[CHOOSE i \in Holding(rows, share_token) : TRUE]

increment_access_db(rows, share_token) ==
  [store |-> [i \in 1..Len(rows) |->
                IF rows[i].share_token = share_token
                THEN [rows[i] EXCEPT !.access_count = @ + 1] ELSE rows[i]],
   ok |-> Cardinality(Holding(rows, share_token)) > 0]

revoke_share_db(rows, share_token) ==
  [store |-> [i \in 1..Len(rows) |->
                IF rows[i].share_token = share_token
                THEN [rows[i] EXCEPT !.is_active = FALSE] ELSE rows[i]],
   ok |-> Cardinality(Holding(rows, share_token)) > 0]

is_share_valid_db(rows, share_token, t) ==
  LET share == get_share_db(rows, share_token)
  IN  IF share = NoShare THEN FALSE
      ELSE IF ~share.is_active THEN FALSE
      ELSE IF t > share.expires_at THEN FALSE
      ELSE TRUE

\* where resume_id = ... and is_active, order by created_at desc, limit 1.
\* Rows are inserted in the order of their created_at (server default now()).
get_share_token_by_resume_id_db(rows, resume_id) ==
  LET hits == {i \in 1..Len(rows) : rows[i].resume_id = resume_id /\ rows[i].is_active}
  IN  IF hits = {} THEN 0
      ELSE rows[CHOOSE i \in hits : \A j \in hits : i >= j].share_token

\* ---- endpoints (shares.py)

\* One answer for every grant that is not valid.
get_public_share_merged(share, valid, has_data) ==
  IF share = NoShare THEN "404"
  ELSE IF ~valid THEN "410"
  ELSE IF ~has_data THEN "404"
  ELSE "200"

\* get_public_share: share is what _get_share returned, valid what
\* _is_share_valid returned, has_data whether the resume has parsed data.
get_public_share(share, valid, has_data) ==
  IF share = NoShare THEN "404"
  ELSE IF ~valid THEN (IF ~share.is_active THEN "403" ELSE "410")
  ELSE IF ~has_data THEN "404"
  ELSE "200"

\* revoke_resume_share for one backend: token is what the lookup by resume_id
\* returned, r what _revoke_share did with it.
revoke_resume_share(store, share_token, r) ==
  IF share_token = 0 THEN [store |-> store, code |-> "404", tokens |-> {}]
  ELSE IF ~r.ok THEN [store |-> r.store, code |-> "404", tokens |-> {}]
  ELSE [store |-> r.store, code |-> "200", tokens |-> {share_token}]

Answer(op, arg, out) == [op |-> op, arg |-> arg, has_data |-> FALSE, out |-> out]

Others == <<busVars, pipeVars, use_db, storeVars, bg, upVars, adapterVars>>

\* The store the flag selects (settings.USE_DATABASE and db).
Shares == IF use_db THEN share_table ELSE share_store

\* The storage abstraction layer of shares.py: each function calls the
\* database function when the flag is on and the in-memory one otherwise.
create_share(share_token, resume_id, expires_in_days, t) ==
  IF use_db THEN create_share_db(share_table, share_token, resume_id, expires_in_days, t)
  ELSE create_share_inmemory(share_store, share_token, resume_id, expires_in_days, t)

get_share(share_token) ==
  IF use_db THEN get_share_db(share_table, share_token)
  ELSE get_share_inmemory(share_store, share_token)

increment_access(share_token) ==
  IF use_db THEN increment_access_db(share_table, share_token)
  ELSE increment_access_inmemory(share_store, share_token)

revoke_share(share_token) ==
  IF use_db THEN revoke_share_db(share_table, share_token)
  ELSE revoke_share_inmemory(share_store, share_token)

is_share_valid(share_token, t) ==
  IF use_db THEN is_share_valid_db(share_table, share_token, t)
  ELSE is_share_valid_inmemory(share_store, share_token, t)

get_share_token_by_resume_id(resume_id) ==
  IF use_db THEN get_share_token_by_resume_id_db(share_table, resume_id)
  ELSE get_share_token_by_resume_id_inmemory(share_store, resume_id)

\* The accesses counted so far, over all grants.
RECURSIVE Accesses(_)
Accesses(store) ==
  IF store = << >> THEN 0 ELSE Head(store).access_count + Accesses(Tail(store))

\* The selected store becomes s; the other one is not touched.
Stored(s) ==
  /\ share_table' = IF use_db THEN s ELSE share_table
  /\ share_store' = IF use_db THEN share_store ELSE s

\* create_share(resume_id, expires_in_days); the token is a fresh uuid4.
CreateShare(resume_id, expires_in_days) ==
  /\ Len(Shares) < MaxShares
  /\ LET share_token == Len(Shares) + 1
     IN  /\ Stored(create_share(share_token, resume_id, expires_in_days, now))
         /\ ret' = Answer("create", resume_id, share_token)
  /\ UNCHANGED <<now, revoked, pub, Others>>

\* get_share(share_token)
GetShare(share_token) ==
  /\ ret' = Answer("get", share_token, get_share(share_token))
  /\ UNCHANGED <<now, share_store, share_table, revoked, pub, Others>>

\* increment_access(share_token)
IncrementAccess(share_token) ==
  /\ Accesses(Shares) < MaxAccess
  /\ Stored(increment_access(share_token).store)
  /\ ret' = Answer("increment", share_token, increment_access(share_token).ok)
  /\ UNCHANGED <<now, revoked, pub, Others>>

\* revoke_share(share_token)
RevokeShare(share_token) ==
  /\ Stored(revoke_share(share_token).store)
  /\ ret' = Answer("revoke", share_token, revoke_share(share_token).ok)
  /\ revoked' = revoked \cup (IF revoke_share(share_token).ok THEN {share_token} ELSE {})
  /\ UNCHANGED <<now, pub, Others>>

\* is_share_valid(share_token)
IsShareValid(share_token) ==
  /\ ret' = Answer("validate", share_token, is_share_valid(share_token, now))
  /\ UNCHANGED <<now, share_store, share_table, revoked, pub, Others>>

\* _get_share_token_by_resume_id(resume_id)
GetShareTokenByResumeId(resume_id) ==
  /\ ret' = Answer("find", resume_id, get_share_token_by_resume_id(resume_id))
  /\ UNCHANGED <<now, share_store, share_table, revoked, pub, Others>>

\* DELETE /v1/resumes/{resume_id}/share
RevokeResumeShare(resume_id) ==
  /\ LET share_token == get_share_token_by_resume_id(resume_id)
         r == revoke_resume_share(Shares, share_token, revoke_share(share_token))
     IN  /\ Stored(r.store)
         /\ ret' = Answer("revoke_by_job", resume_id, r.code)
         /\ revoked' = revoked \cup r.tokens
  /\ UNCHANGED <<now, pub, Others>>

\* A public access that counts the access before it validates the grant.
GetPublicShare_counting_first(share_token, has_data) ==
  /\ LET share == get_share(share_token)
         code == get_public_share(share, is_share_valid(share_token, now), has_data)
     IN  /\ share # NoShare => Accesses(Shares) < MaxAccess
         /\ Stored(IF share # NoShare THEN increment_access(share_token).store ELSE Shares)
         /\ ret' = [Answer("public", share_token, code) EXCEPT !.has_data = has_data]
  /\ UNCHANGED <<now, revoked, pub, Others>>

\* GET /v1/share/{share_token}, as one step: the request with no other
\* request running between its reads of the grant.
GetPublicShare(share_token, has_data) ==
  /\ LET share == get_share(share_token)
         code == get_public_share(share, is_share_valid(share_token, now), has_data)
     IN  /\ code = "200" => Accesses(Shares) < MaxAccess
         /\ Stored(IF code = "200" THEN increment_access(share_token).store ELSE Shares)
         /\ ret' = [Answer("public", share_token, code) EXCEPT !.has_data = has_data]
  /\ UNCHANGED <<now, revoked, pub, Others>>

\* A day passes.
Tick ==
  /\ now < MaxTime
  /\ now' = now + 1
  /\ ret' = Answer("tick", 0, "none")
  /\ UNCHANGED <<share_store, share_table, revoked, pub, Others>>

InitShareSpec ==
  /\ active_connections = << >>
  /\ ws = [c \in Channels |-> [st |-> "fresh", ep |-> FALSE]]
  /\ bc = BcIdle
  /\ inbox = << >>
  /\ pc = "idle"
  /\ exc = "none"
  /\ enable_ai = TRUE
  /\ raw_text = -1
  /\ parsed_data = "none"
  /\ enhanced_data = "none"
  /\ published = << >>
  /\ result = "none"
  /\ regular_text = -1
  /\ ocr = "not_called"
  /\ nlp_out = "none"
  /\ ai = "not_called"
  /\ file_ext = "unset"
  /\ fatal = "none"
  /\ use_db \in BOOLEAN
  /\ db_status = "none"
  /\ db_parsed = << >>
  /\ mem_store = "none"
  /\ bg = "pending"
  /\ InitUpload
  /\ InitShare
  /\ InitAdapter

\* The operations that change a grant or answer a request of the API.
NextShare ==
  \/ \E j \in Jobs, d \in ExpiresIn : CreateShare(j, d)
  \/ \E t \in Tokens : IncrementAccess(t)
  \/ \E t \in Tokens : RevokeShare(t)
  \/ \E j \in Jobs : RevokeResumeShare(j)
  \/ \E t \in Tokens, has_data \in BOOLEAN : GetPublicShare(t, has_data)
  \/ Tick

SpecShare == InitShareSpec /\ [][NextShare]_vars

\* The same with the reading functions of the storage layer called directly.
NextShareStorage ==
  \/ \E j \in Jobs, d \in ExpiresIn : CreateShare(j, d)
  \/ \E t \in Tokens : IncrementAccess(t)
  \/ \E t \in Tokens : RevokeShare(t)
  \/ \E j \in Jobs : RevokeResumeShare(j)
  \/ \E t \in Tokens, has_data \in BOOLEAN : GetPublicShare(t, has_data)
  \/ Tick
  \/ \E t \in Tokens : GetShare(t)
  \/ \E t \in Tokens : IsShareValid(t)
  \/ \E j \in Jobs : GetShareTokenByResumeId(j)

SpecShareStorage == InitShareSpec /\ [][NextShareStorage]_vars

\* ---- GET /v1/share/{share_token} with the database, await by await.  Every
\* await of get_public_share is a point where another request runs; each
\* query reads the rows committed at that moment.

\* share = await _get_share(share_token, db); 404 when there is none.
PublicRead(share_token) ==
  /\ pub = PubIdle
  /\ LET share == get_share_db(share_table, share_token)
     IN  IF share = NoShare
         THEN /\ pub' = PubIdle
              /\ ret' = Answer("public", share_token, "404")
         ELSE /\ pub' = [pc |-> "validate", share_token |-> share_token, share |-> share]
              /\ ret' = Answer("public_read", share_token, "none")
  /\ UNCHANGED <<now, share_store, share_table, revoked, Others>>

\* await _is_share_valid(share_token, db) reads the row again; the reason of
\* a failure is taken from the dict read before.
PublicValidate ==
  /\ pub.pc = "validate"
  /\ LET valid == is_share_valid_db(share_table, pub.share_token, now)
         code == get_public_share(pub.share, valid, TRUE)
     IN  IF code = "200"
         THEN /\ pub' = [pub EXCEPT !.pc = "data"]
              /\ ret' = Answer("public_valid", pub.share_token, "none")
         ELSE /\ pub' = PubIdle
              /\ ret' = Answer("public", pub.share_token, code)
  /\ UNCHANGED <<now, share_store, share_table, revoked, Others>>

\* await _get_parsed_resume(resume_id, db), then await _increment_access.
PublicFinish(has_data) ==
  /\ pub.pc = "data"
  /\ has_data => Accesses(share_table) < MaxAccess
  /\ share_table' = IF has_data THEN increment_access_db(share_table, pub.share_token).store
                    ELSE share_table
  /\ ret' = [Answer("public", pub.share_token, IF has_data THEN "200" ELSE "404")
               EXCEPT !.has_data = has_data]
  /\ pub' = PubIdle
  /\ UNCHANGED <<now, share_store, revoked, Others>>

InitShareRace == InitShareSpec /\ use_db

\* One public access, step by step, among creates, revokes and the clock.
NextShareRace ==
  \/ \E j \in Jobs, d \in ExpiresIn : CreateShare(j, d)
  \/ \E t \in Tokens : RevokeShare(t)
  \/ \E j \in Jobs : RevokeResumeShare(j)
  \/ \E t \in Tokens : PublicRead(t)
  \/ PublicValidate
  \/ \E has_data \in BOOLEAN : PublicFinish(has_data)
  \/ Tick

SpecShareRace == InitShareRace /\ [][NextShareRace]_vars

\* =====================================================================
\* Storage adapter (app/services/storage_adapter.py) over the in-memory store
\* (app/core/storage.py) and the database service
\* (app/services/database_storage.py), and PUT /v1/resumes/{resume_id}
\* (app/api/resumes.py).
\*
\* Of a record the model keeps personal_info (full_name, linkedin_url,
\* summary), work_experience, education, skills (technical, soft_skills,
\* certifications) and confidence_scores (overall, skills).  A scalar is a
\* Python value with its type; a dict is a function from its keys; a list is
\* a sequence; a work_experience or education entry is its name.  Scores on
\* the 0-100 scale are in tenths of a percent (874 is 87.4), scores on the
\* 0-1 scale in hundredths (87 is 0.87).
\* =====================================================================

None   == [type |-> "NoneType", value |-> ""]
Str(s) == [type |-> "str", value |-> s]
Number(s) == [type |-> "int", value |-> s]

\* bool(v) of a scalar.
truthy(v) == v.type # "NoneType" /\ v.value \notin {"", "0"}

\* v or None
OrNone(v) == IF truthy(v) THEN v ELSE None

\* d.get(k, default) and d.update(e)
dict_get(d, k, default) == IF k \in DOMAIN d THEN d[k] ELSE default
dict_update(d, e) ==
  [k \in DOMAIN d \cup DOMAIN e |-> IF k \in DOMAIN e THEN e[k] ELSE d[k]]

\* The keys of personal_info kept, and the categories of skills in the order
\* the dicts hold them.
PersonalKeys == {"full_name", "linkedin_url", "summary"}
SkillCategories == <<"technical", "soft_skills", "certifications">>

\* StorageAdapter._is_valid_uuid
is_valid_uuid(resume_id) == resume_id.stripped = 32 /\ resume_id.hexdigits

\* The loop of _normalize_nlp_output_to_parsed_data over skills_data.items():
\* every category's list is appended to all_skills.
RECURSIVE all_skills(_, _)
all_skills(skills_data, categories) ==
  IF categories = << >> THEN << >>
  ELSE dict_get(skills_data, Head(categories), << >>)
         \o all_skills(skills_data, Tail(categories))

\* round(max(0.0, min(1.0, overall / 100.0)), 2), overall in tenths of a
\* percent, the result in hundredths; no score used lies halfway.
extraction_confidence(overall) ==
  LET clamped == IF overall < 0 THEN 0 ELSE IF overall > 1000 THEN 1000 ELSE overall
  IN (clamped + 5) \div 10

\* StorageAdapter._normalize_nlp_output_to_parsed_data
normalize_nlp_output_to_parsed_data(raw_data) ==
  [full_name             |-> OrNone(dict_get(raw_data.personal_info, "full_name", None)),
   linkedin_url          |-> OrNone(dict_get(raw_data.personal_info, "linkedin_url", None)),
   summary               |-> OrNone(dict_get(raw_data.personal_info, "summary", None)),
   skills                |-> all_skills(raw_data.skills, SkillCategories),
   work_experience       |-> raw_data.work_experience,
   education             |-> raw_data.education,
   certifications        |-> dict_get(raw_data.skills, "certifications", << >>),
   extraction_confidence |-> extraction_confidence(
                               dict_get(raw_data.confidence_scores, "overall", 0))]

\* The fields of ParsedData kept, the Optional[str] ones, and the defaults.
ParsedDataFields == {"full_name", "linkedin_url", "summary", "skills", "work_experience",
                     "education", "certifications", "extraction_confidence"}
OptionalStrFields == {"full_name", "linkedin_url", "summary"}
field_default(k) ==
  IF k \in OptionalStrFields THEN None
  ELSE IF k = "extraction_confidence" THEN 0 ELSE << >>

\* ParsedData(**kwargs): the model, or ValidationError when an Optional[str]
\* field is given a value that is neither a str nor None.
ParsedData(kwargs) ==
  LET filled == [k \in ParsedDataFields |->
                   IF k \in DOMAIN kwargs THEN kwargs[k] ELSE field_default(k)]
  IN IF \A k \in OptionalStrFields : filled[k].type \in {"str", "NoneType"}
     THEN Ok(filled)
     ELSE Raise("ValidationError")

\* The keyword arguments of the fallback ParsedData(...) of save_parsed_data
\* and of update_parsed_data.
SaveFallbackFields == {"full_name", "skills", "work_experience", "education",
                       "certifications", "extraction_confidence"}
UpdateFallbackFields == {"full_name", "skills", "work_experience", "education",
                         "extraction_confidence"}

\* try: ParsedData(**normalized_data)  except ValidationError: ParsedData(...)
\* with the fallback's arguments taken from normalized_data.
parsed_data_model(normalized_data, fallback_fields) ==
  LET first == ParsedData(normalized_data)
  IN IF first.ok THEN first
     ELSE ParsedData([k \in fallback_fields |-> normalized_data[k]])

\* DatabaseStorageService._parsed_data_to_jsonb: personal_info without the
\* None values, skills as the flat list, every confidence score the overall
\* one on the 0-1 scale; certifications are not written.
parsed_data_to_jsonb(model) ==
  [personal_info     |-> [k \in {f \in PersonalKeys : model[f] # None} |-> model[k]],
   work_experience   |-> model.work_experience,
   education         |-> model.education,
   skills            |-> model.skills,
   confidence_scores |-> [overall |-> model.extraction_confidence,
                          skills  |-> model.extraction_confidence]]

\* DatabaseStorageService._jsonb_to_parsed_data, skills being a list.
jsonb_to_parsed_data(jsonb_data) ==
  ParsedData(
    [full_name             |-> dict_get(jsonb_data.personal_info, "full_name", None),
     linkedin_url          |-> dict_get(jsonb_data.personal_info, "linkedin_url", None),
     summary               |-> dict_get(jsonb_data.personal_info, "summary", None),
     skills                |-> jsonb_data.skills,
     work_experience       |-> jsonb_data.work_experience,
     education             |-> jsonb_data.education,
     certifications        |-> << >>,
     extraction_confidence |-> dict_get(jsonb_data.confidence_scores, "overall", 0)]).val

\* StorageAdapter._parsed_data_to_nested_dict: every skill under "technical",
\* every confidence score round(extraction_confidence * 100, 2).
parsed_data_to_nested_dict(model) ==
  [personal_info     |-> [k \in PersonalKeys |-> model[k]],
   work_experience   |-> model.work_experience,
   education         |-> model.education,
   skills            |-> [technical      |-> model.skills,
                          soft_skills    |-> << >>,
                          certifications |-> model.certifications],
   confidence_scores |-> [overall |-> model.extraction_confidence * 10,
                          skills  |-> model.extraction_confidence * 10]]

\* ---- app/core/storage.py; store is _resume_store without its timestamps

save_parsed_resume(store, resume_id, data) == [store EXCEPT ![resume_id] = data]

get_parsed_resume(store, resume_id) == store[resume_id]

update_parsed_resume(store, resume_id, updated_data) ==
  IF store[resume_id] = Missing
  THEN [store |-> store, out |-> FALSE]
  ELSE [store |-> [store EXCEPT ![resume_id] = updated_data], out |-> TRUE]

delete_parsed_resume(store, resume_id) ==
  IF store[resume_id] # Missing
  THEN [store |-> [store EXCEPT ![resume_id] = Missing], out |-> TRUE]
  ELSE [store |-> store, out |-> FALSE]

\* ---- DatabaseStorageService; table is parsed_resume_data

\* save_parsed_data: a new row, whatever rows the resume has.
db_save_parsed_data(table, resume_id, model) ==
  [table EXCEPT ![resume_id] = Append(@, parsed_data_to_jsonb(model))]

\* get_parsed_data: scalar_one_or_none() raises on a second row.
db_get_parsed_data(table, resume_id) ==
  IF Len(table[resume_id]) = 0 THEN Ok(Missing)
  ELSE IF Len(table[resume_id]) > 1 THEN Raise("MultipleResultsFound")
  ELSE Ok(jsonb_to_parsed_data(table[resume_id][1]))

\* update_parsed_data: None without a row, else the row's columns overwritten.
db_update_parsed_data(table, resume_id, model) ==
  IF Len(table[resume_id]) = 0 THEN [table |-> table, out |-> Ok(Missing)]
  ELSE IF Len(table[resume_id]) > 1
       THEN [table |-> table, out |-> Raise("MultipleResultsFound")]
  ELSE [table |-> [table EXCEPT ![resume_id] = <<parsed_data_to_jsonb(model)>>],
        out   |-> Ok(jsonb_to_parsed_data(parsed_data_to_jsonb(model)))]

\* ---- StorageAdapter; flag is self.use_database

\* What the adapter leaves behind and what it returns or raises.
Outcome(store, table, status, out) ==
  [store |-> store, table |-> table, status |-> status, out |-> out]

\* A variant of save_parsed_data under which saving a job that is already
\* complete puts it back to processing.
adapter_save_parsed_data_reopening(flag, store, table, status, resume_id, data) ==
  IF flag /\ is_valid_uuid(resume_id)
  THEN LET model == parsed_data_model(normalize_nlp_output_to_parsed_data(data),
                                      SaveFallbackFields)
       IN IF ~model.ok THEN Outcome(store, table, status, Raise(model.exc))
          ELSE Outcome(store,
                       db_save_parsed_data(table, resume_id, model.val),
                       [status EXCEPT ![resume_id] =
                          IF @ = "complete" THEN "processing" ELSE "complete"],
                       Ok("None"))
  ELSE Outcome(save_parsed_resume(store, resume_id, data), table, status, Ok("None"))

\* save_parsed_data.  With the database: normalise, validate with the
\* fallback, create the resumes row if it is missing, set its status to
\* complete, add the parsed_resume_data row.
adapter_save_parsed_data(flag, store, table, status, resume_id, data) ==
  IF flag /\ is_valid_uuid(resume_id)
  THEN LET model == parsed_data_model(normalize_nlp_output_to_parsed_data(data),
                                      SaveFallbackFields)
       IN IF ~model.ok THEN Outcome(store, table, status, Raise(model.exc))
          ELSE Outcome(store,
                       db_save_parsed_data(table, resume_id, model.val),
                       [status EXCEPT ![resume_id] = "complete"],
                       Ok("None"))
  ELSE Outcome(save_parsed_resume(store, resume_id, data), table, status, Ok("None"))

\* get_parsed_data
adapter_get_parsed_data(flag, store, table, resume_id) ==
  IF flag /\ is_valid_uuid(resume_id)
  THEN LET parsed == db_get_parsed_data(table, resume_id)
       IN IF ~parsed.ok THEN parsed
          ELSE IF parsed.val = Missing THEN Ok(Missing)
          ELSE Ok(parsed_data_to_nested_dict(parsed.val))
  ELSE Ok(get_parsed_resume(store, resume_id))

\* update_parsed_data
adapter_update_parsed_data(flag, store, table, status, resume_id, updated_data) ==
  IF flag /\ is_valid_uuid(resume_id)
  THEN LET model == parsed_data_model(normalize_nlp_output_to_parsed_data(updated_data),
                                      UpdateFallbackFields)
       IN IF ~model.ok THEN Outcome(store, table, status, Raise(model.exc))
          ELSE LET u == db_update_parsed_data(table, resume_id, model.val)
               IN IF ~u.out.ok THEN Outcome(store, table, status, u.out)
                  ELSE Outcome(store, u.table, status, Ok(u.out.val # Missing))
  ELSE LET u == update_parsed_resume(store, resume_id, updated_data)
       IN Outcome(u.store, table, status, Ok(u.out))

\* delete_parsed_data
adapter_delete_parsed_data(flag, store, table, status, resume_id) ==
  IF flag THEN Outcome(store, table, status, Ok(TRUE))
  ELSE LET d == delete_parsed_resume(store, resume_id)
       IN Outcome(d.store, table, status, Ok(d.out))

\* ---- PUT /v1/resumes/{resume_id}

\* "Update only provided fields": personal_info.update(...), work_experience
\* and education assigned, skills.update(...); update_data holds the fields
\* of the request that are not None.
apply_update_data(current_data, update_data) ==
  [personal_info     |-> IF "personal_info" \in DOMAIN update_data
                         THEN dict_update(current_data.personal_info, update_data.personal_info)
                         ELSE current_data.personal_info,
   work_experience   |-> IF "work_experience" \in DOMAIN update_data
                         THEN update_data.work_experience
                         ELSE current_data.work_experience,
   education         |-> IF "education" \in DOMAIN update_data
                         THEN update_data.education
                         ELSE current_data.education,
   skills            |-> IF "skills" \in DOMAIN update_data
                         THEN dict_update(current_data.skills, update_data.skills)
                         ELSE current_data.skills,
   confidence_scores |-> current_data.confidence_scores]

\* The answers of the endpoint: HTTPException(404), HTTPException(500), the
\* ResumeResponse, or the exception that leaves the handler.
NotFound          == [status_code |-> 404]
FailedToUpdate    == [status_code |-> 500]
Updated(data)     == [status_code |-> 200, data |-> data]
Unhandled(e)      == [status_code |-> 500, exc |-> e]

\* An update_resume that stores the fields of the request under an id that
\* has no record instead of answering 404.
update_resume_upserting(store, resume_id, update_data) ==
  IF get_parsed_resume(store, resume_id) = Missing
  THEN [store |-> [store EXCEPT ![resume_id] = update_data], out |-> Updated(update_data)]
  ELSE LET merged == apply_update_data(get_parsed_resume(store, resume_id), update_data)
       IN [store |-> [store EXCEPT ![resume_id] = merged], out |-> Updated(merged)]

\* update_resume with USE_DATABASE off: get_parsed_resume, the merge in the
\* stored dict itself, update_parsed_resume.
update_resume_inmemory(store, resume_id, update_data) ==
  IF get_parsed_resume(store, resume_id) = Missing
  THEN [store |-> store, out |-> NotFound]
  ELSE LET merged == apply_update_data(get_parsed_resume(store, resume_id), update_data)
           u == update_parsed_resume([store EXCEPT ![resume_id] = merged], resume_id, merged)
       IN [store |-> u.store, out |-> IF u.out THEN Updated(merged) ELSE FailedToUpdate]

\* ---- the records saved and the requests sent

\* Categorised skills, section scores that differ, an empty summary.
CategorisedRecord ==
  [personal_info     |-> [full_name    |-> Str("Ada Lovelace"),
                          linkedin_url |-> Str("linkedin.com/in/ada"),
                          summary      |-> Str("")],
   work_experience   |-> <<"engineer">>,
   education         |-> <<"bsc">>,
   skills            |-> [technical |-> <<"python">>, soft_skills |-> <<"teamwork">>],
   confidence_scores |-> [overall |-> 874, skills |-> 900]]

\* Technical skills only, every score the same whole percent.
PlainRecord ==
  [personal_info     |-> [full_name |-> Str("Alan Turing")],
   work_experience   |-> << >>,
   education         |-> << >>,
   skills            |-> [technical |-> <<"logic">>],
   confidence_scores |-> [overall |-> 910, skills |-> 910]]

\* full_name is a number.
BadNameRecord ==
  [CategorisedRecord EXCEPT !.personal_info.full_name = Number("123")]

\* summary is a number; full_name and linkedin_url are strings.
BadSummaryRecord ==
  [CategorisedRecord EXCEPT !.personal_info.summary = Number("123")]

ParsedInputs == {CategorisedRecord, PlainRecord, BadNameRecord, BadSummaryRecord}

\* personal_info and skills supplied.
SkillsUpdate ==
  [personal_info |-> [full_name |-> Str("Grace Hopper")],
   skills        |-> [soft_skills |-> <<"mentoring">>]]

\* work_experience and education supplied.
ListsUpdate == [work_experience |-> <<"admiral">>, education |-> <<"phd">>]

\* personal_info supplied with a number for full_name.
BadNameUpdate == [personal_info |-> [full_name |-> Number("123")]]

UpdateRequests == {SkillsUpdate, ListsUpdate, BadNameUpdate}

AdapterOthers == <<busVars, pipeVars, use_db, storeVars, bg, upVars, shareVars>>

\* The backend the adapter is to use for resume_id.
routed_to_db(resume_id) == use_db /\ is_valid_uuid(resume_id)

\* ---- actions

\* adapter.save_parsed_data(resume_id, parsed_data); data is parsed_data
SaveParsedData(resume_id, data) ==
  /\ routed_to_db(resume_id) => Len(parsed_resume_data[resume_id]) < MaxRows
  /\ LET o == adapter_save_parsed_data(use_db, resume_store, parsed_resume_data,
                                       processing_status, resume_id, data)
     IN /\ resume_store' = o.store
        /\ parsed_resume_data' = o.table
        /\ processing_status' = o.status
        /\ answer' = [op |-> "save_parsed_data", id |-> resume_id, arg |-> data,
                      out |-> o.out]
  /\ UNCHANGED <<upd, puts, AdapterOthers>>

\* adapter.get_parsed_data(resume_id)
GetParsedData(resume_id) ==
  /\ answer' = [op |-> "get_parsed_data", id |-> resume_id,
                out |-> adapter_get_parsed_data(use_db, resume_store, parsed_resume_data,
                                                resume_id)]
  /\ UNCHANGED <<resume_store, parsed_resume_data, processing_status, upd, puts, AdapterOthers>>

\* adapter.delete_parsed_data(resume_id)
DeleteParsedData(resume_id) ==
  /\ LET o == adapter_delete_parsed_data(use_db, resume_store, parsed_resume_data,
                                         processing_status, resume_id)
     IN /\ resume_store' = o.store
        /\ parsed_resume_data' = o.table
        /\ processing_status' = o.status
        /\ answer' = [op |-> "delete_parsed_data", id |-> resume_id, out |-> o.out]
  /\ UNCHANGED <<upd, puts, AdapterOthers>>

\* update_resume(resume_id, update_data) up to its write.  With USE_DATABASE
\* off the handler has no await and runs to its end.  With it on the handler
\* reads through the adapter (the call answer keeps), merges, and waits for
\* the session of its write; a dict read from _resume_store is the stored
\* one, so the merge is already in the store.
UpdateResume(resume_id, update_data) ==
  /\ upd = UpdIdle
  /\ IF ~use_db
     THEN LET u == update_resume_inmemory(resume_store, resume_id, update_data)
          IN /\ resume_store' = u.store
             /\ answer' = [op |-> "update_resume", id |-> resume_id, arg |-> update_data,
                           out |-> u.out]
             /\ upd' = upd
     ELSE LET got == adapter_get_parsed_data(use_db, resume_store, parsed_resume_data,
                                             resume_id)
          IN IF ~got.ok
             THEN /\ answer' = [op |-> "update_resume", id |-> resume_id,
                                arg |-> update_data, out |-> Unhandled(got.exc)]
                  /\ UNCHANGED <<resume_store, upd>>
             ELSE IF got.val = Missing
             THEN /\ answer' = [op |-> "update_resume", id |-> resume_id,
                                arg |-> update_data, out |-> NotFound]
                  /\ UNCHANGED <<resume_store, upd>>
             ELSE LET merged == apply_update_data(got.val, update_data)
                  IN /\ Len(all_skills(merged.skills, SkillCategories)) <= MaxSkills
                     /\ upd' = [pc |-> "write", id |-> resume_id, arg |-> update_data,
                                current_data |-> merged]
                     /\ resume_store' = IF is_valid_uuid(resume_id) THEN resume_store
                                        ELSE [resume_store EXCEPT ![resume_id] = merged]
                     /\ answer' = [op |-> "get_parsed_data", id |-> resume_id, out |-> got]
  /\ UNCHANGED <<parsed_resume_data, processing_status, puts, AdapterOthers>>

\* The rest of update_resume with USE_DATABASE on:
\* adapter.update_parsed_data(resume_id, current_data) and the answer.
UpdateResumeWrite ==
  /\ upd # UpdIdle
  /\ LET o == adapter_update_parsed_data(use_db, resume_store, parsed_resume_data,
                                         processing_status, upd.id, upd.current_data)
     IN /\ resume_store' = o.store
        /\ parsed_resume_data' = o.table
        /\ processing_status' = o.status
        /\ answer' = [op |-> "update_resume", id |-> upd.id, arg |-> upd.arg,
                      out |-> IF ~o.out.ok THEN Unhandled(o.out.exc)
                              ELSE IF o.out.val THEN Updated(upd.current_data)
                              ELSE FailedToUpdate]
  /\ upd' = UpdIdle
  /\ UNCHANGED <<puts, AdapterOthers>>

InitAdapterSpec == InitShareSpec

NextAdapter ==
  \/ \E i \in ResumeIds, r \in ParsedInputs : SaveParsedData(i, r)
  \/ \E i \in ResumeIds : GetParsedData(i)
  \/ \E i \in ResumeIds : DeleteParsedData(i)
  \/ \E i \in ResumeIds, q \in UpdateRequests : UpdateResume(i, q)
  \/ UpdateResumeWrite

SpecAdapter == InitAdapterSpec /\ [][NextAdapter]_vars

\* The same without the adapter's get called on its own.
NextAdapterWrites ==
  \/ \E i \in ResumeIds, r \in ParsedInputs : SaveParsedData(i, r)
  \/ \E i \in ResumeIds : DeleteParsedData(i)
  \/ \E i \in ResumeIds, q \in UpdateRequests : UpdateResume(i, q)
  \/ UpdateResumeWrite

SpecAdapterWrites == InitAdapterSpec /\ [][NextAdapterWrites]_vars

\* The id of the run's job: upload_resume makes it with uuid.uuid4().
RunId == CHOOSE i \in ResumeIds : is_valid_uuid(i)

\* ---- PUT /v1/resumes/{resume_id} with the database, await by await, for
\* requests running at once.  Each request reads in one session and writes in
\* another; update_parsed_data of DatabaseStorageService selects the row,
\* assigns its five columns and commits.  The unit of work of the ORM puts
\* into the UPDATE only the columns whose assigned value differs from the
\* value the select loaded.

\* The writes committed so far by the requests.
Commits == Cardinality({w \in Writers : puts[w].pc = "done" /\ "written" \in DOMAIN puts[w]})

\* The request of w is over with this answer.
PutDone(w, out) == puts' = [puts EXCEPT ![w] = [pc |-> "done", out |-> out]]

\* update_resume up to the end of its first session: get_parsed_data and the
\* merge of the fields supplied.
PutRead(w, resume_id, update_data) ==
  /\ puts[w] = PutIdle
  /\ LET got == adapter_get_parsed_data(use_db, resume_store, parsed_resume_data,
                                        resume_id)
     IN IF ~got.ok THEN PutDone(w, Unhandled(got.exc))
        ELSE IF got.val = Missing THEN PutDone(w, NotFound)
        ELSE LET merged == apply_update_data(got.val, update_data)
             IN /\ Len(all_skills(merged.skills, SkillCategories)) <= MaxSkills
                /\ puts' = [puts EXCEPT ![w] = [pc |-> "select", id |-> resume_id,
                                                arg |-> update_data,
                                                current_data |-> merged]]
  /\ answer' = [op |-> "get_parsed_data", id |-> resume_id,
                out |-> adapter_get_parsed_data(use_db, resume_store,
                                                parsed_resume_data, resume_id)]
  /\ UNCHANGED <<resume_store, parsed_resume_data, processing_status, upd, AdapterOthers>>

\* adapter.update_parsed_data up to the select of update_parsed_data: the
\* record is normalised and validated, the row of the resume is loaded.
PutSelect(w) ==
  /\ puts[w].pc = "select"
  /\ LET model == parsed_data_model(
                    normalize_nlp_output_to_parsed_data(puts[w].current_data),
                    UpdateFallbackFields)
         rows  == parsed_resume_data[puts[w].id]
     IN IF ~model.ok THEN PutDone(w, Unhandled(model.exc))
        ELSE IF Len(rows) = 0 THEN PutDone(w, FailedToUpdate)
        ELSE IF Len(rows) > 1 THEN PutDone(w, Unhandled("MultipleResultsFound"))
        ELSE puts' = [puts EXCEPT ![w] = [pc |-> "commit", id |-> puts[w].id,
                                          arg |-> puts[w].arg,
                                          current_data |-> puts[w].current_data,
                                          jsonb_data |-> parsed_data_to_jsonb(model.val),
                                          existing_obj |-> rows[1],
                                          seen |-> Commits]]
  /\ answer' = [op |-> "update_resume_select", id |-> puts[w].id]
  /\ UNCHANGED <<resume_store, parsed_resume_data, processing_status, upd, AdapterOthers>>

\* The commit of update_parsed_data, the refresh and the answer of the
\* handler.
PutCommit(w) ==
  /\ puts[w].pc = "commit"
  /\ LET p       == puts[w]
         changed == {f \in DOMAIN p.jsonb_data : p.jsonb_data[f] # p.existing_obj[f]}
         row     == parsed_resume_data[p.id][1]
     IN /\ parsed_resume_data' =
             [parsed_resume_data EXCEPT ![p.id] =
                [@ EXCEPT ![1] = [f \in DOMAIN row |->
                                    IF f \in changed THEN p.jsonb_data[f] ELSE row[f]]]]
        /\ puts' = [puts EXCEPT ![w] = [pc |-> "done", out |-> Updated(p.current_data),
                                        id |-> p.id, written |-> p.jsonb_data,
                                        seen |-> p.seen, order |-> Commits + 1]]
        /\ answer' = [op |-> "update_resume", id |-> p.id, arg |-> p.arg,
                      out |-> Updated(p.current_data)]
  /\ UNCHANGED <<resume_store, processing_status, upd, AdapterOthers>>

InitUpdateRace == InitAdapterSpec /\ use_db

\* Saves of the run's job and one PUT per writer for it.
NextUpdateRace ==
  \/ \E r \in ParsedInputs : SaveParsedData(RunId, r)
  \/ \E w \in Writers, q \in UpdateRequests : PutRead(w, RunId, q)
  \/ \E w \in Writers : PutSelect(w)
  \/ \E w \in Writers : PutCommit(w)

SpecUpdateRace == InitUpdateRace /\ [][NextUpdateRace]_vars

\* =====================================================================
\* Properties
\* =====================================================================

RunEnded == pc \in {"returned", "raised"}

Broadcast(stage) == \E i \in 1..Len(published) : published[i].stage = stage

\* A record is stored for the run's resume, in whichever backend.
Persisted == mem_store # "none" \/ Len(db_parsed) > 0

\* C1: broadcast_to_resume never lets an exception reach its caller; when it
\* has returned, every subscriber of the job at the start of the call whose
\* delivery did not fail has received the message, and every subscriber whose
\* delivery failed is no longer registered.
C1_BroadcastNeverRaises ==
  /\ bc.st # "raised"
  /\ bc.st = "returned" =>
       /\ (bc.snapshot \ bc.disconnected) \subseteq bc.delivered
       /\ RunJob \in DOMAIN active_connections =>
            active_connections[RunJob] \cap bc.disconnected = {}

\* C2: while a broadcast is suspended in a delivery the collection it walks is
\* the set of subscribers taken at its start, whatever connects and
\* disconnects run meanwhile; the call ends by returning, and by then delivery
\* has been attempted to every subscriber of that snapshot.
C2_BroadcastWalksSnapshot ==
  /\ bc.st = "sending" => IteratedSet(bc, active_connections, RunJob) = bc.snapshot
  /\ bc.st \in {"returned", "raised"} =>
       /\ bc.st = "returned"
       /\ bc.snapshot \subseteq bc.passed

\* C3: a run in which no stage and no storage operation failed has returned
\* its record, has persisted it and has ended with COMPLETE, whatever the
\* subscribers did meanwhile.
C3_SubscribersDoNotAffectOutcome ==
  (RunEnded /\ fatal = "none") =>
    /\ pc = "returned"
    /\ result = parsed_data
    /\ get_parsed_data = result
    /\ LastEvent = CompleteProgress(result)
    /\ ~Broadcast("error")

\* C4: a run that ended has a terminal event as its last broadcast: COMPLETE
\* with progress 100 and the record iff it returned the record, ERROR with an
\* error code iff it raised; it has not broadcast both, and if it broadcast
\* ERROR no record is persisted.
C4_ExactlyOneTerminalEvent ==
  RunEnded =>
    /\ (pc = "returned") <=> (LastEvent = CompleteProgress(result) /\ result # "none")
    /\ (pc = "raised") <=>
         (LastEvent.stage = "error"
            /\ LastEvent.data \in {"TEXT_EXTRACTION_ERROR", "PARSE_ERROR"})
    /\ ~(Broadcast("complete") /\ Broadcast("error"))
    /\ Broadcast("error") => ~Persisted

\* C5: a run in which the AI enhancer raised (and nothing else failed) has
\* returned normally, has ended with COMPLETE and without ERROR, and the record
\* returned, persisted and carried by COMPLETE is stage 2's output.
C5_AiFailureIsSoft ==
  (RunEnded /\ ai = "failed" /\ fatal = "none") =>
    /\ pc = "returned"
    /\ ~Broadcast("error")
    /\ result = nlp_out
    /\ get_parsed_data = nlp_out
    /\ LastEvent = CompleteProgress(nlp_out)

\* C6: when the text of stage 1 is below the threshold and the OCR fallback
\* fails, nothing is ever persisted and COMPLETE is never broadcast, and the
\* run ends by raising with ERROR as its last event.
C6_OcrFailureIsFatal ==
  ocr = "failed" =>
    /\ regular_text < MIN_TEXT_LENGTH
    /\ ~Persisted
    /\ ~Broadcast("complete")
    /\ result = "none"
    /\ pc \notin {"returned", "save", "save2", "s4"}
    /\ RunEnded => (pc = "raised" /\ LastEvent.stage = "error")

C6_Witness == ocr = "failed" /\ pc = "raised" /\ bg = "done"

\* C7: a run whose text after stage 1 is empty never persists a record and
\* never broadcasts COMPLETE; it ends in ERROR.
C7_EmptyTextNeverCompletes ==
  raw_text = 0 =>
    /\ ~Persisted
    /\ ~Broadcast("complete")
    /\ RunEnded => (pc = "raised" /\ LastEvent.stage = "error")

\* C8: once the background task of a run that failed in stage 1 or stage 2 is
\* over, the stored status of the job is failed, and a poll does not answer
\* that the job is still being processed.
C8_FailedJobIsMarkedFailed ==
  (bg = "done" /\ fatal \in {"stage1", "stage2"} /\ db_status # "none") =>
    /\ db_status = "failed"
    /\ get_resume # "202"

TasksWithHash(h) == {i \in 1..Len(tasks) : tasks[i].hash = h}

AcceptedRequests == {r \in Requests : up[r].pc = "done" /\ up[r].resp.code = "202"}

\* C9: two submissions with identical content that were both answered are
\* answered with the same job id, under either backend, and at most one
\* pipeline run is started per content hash.
C9_DuplicateResolvesToFirstJob ==
  /\ \A r1, r2 \in AcceptedRequests :
        up[r1].hash = up[r2].hash => up[r1].resp.id = up[r2].resp.id
  /\ \A h \in Hashes : Cardinality(TasksWithHash(h)) <= 1

\* C10: with the database backend, of two submissions of identical content
\* neither fails, both are answered with the same job id, and there is at most
\* one job row and at most one started pipeline run for the content hash.
C10_ConcurrentDuplicatesDeduplicated ==
  use_db =>
    /\ \A r \in Requests :
          (up[r].pc = "done" /\ up[r].hash \in Hashes) => up[r].resp.code = "202"
    /\ \A r1, r2 \in AcceptedRequests :
          up[r1].hash = up[r2].hash => up[r1].resp.id = up[r2].resp.id
    /\ \A h \in Hashes : Cardinality(RowsWithHash(resumes, h)) <= 1
    /\ \A h \in Hashes : Cardinality(TasksWithHash(h)) <= 1

C12_RevokedIsTerminal ==
  /\ \A t \in revoked : ~get_share(t).is_active /\ ~is_share_valid(t, now)
  /\ \A t \in Tokens :
       (get_share(t) # NoShare /\ now > get_share(t).expires_at) => ~is_share_valid(t, now)

C12_Witness ==
  /\ ret.op = "create"
  /\ \E t \in revoked : get_share(t).resume_id = ret.arg /\ now <= get_share(t).expires_at

\* C13: validate answers true exactly when the grant exists, is active and
\* now < expires_at; at now = expires_at it answers false.
C13_ValidIffActiveAndBeforeExpiry ==
  ret.op = "validate" =>
    LET share == get_share(ret.arg)
    IN  ret.out <=> (share # NoShare /\ share.is_active /\ now < share.expires_at)

\* The active grants of a resume, by position (the order of creation).
ActiveOf(resume_id) ==
  {i \in 1..Len(Shares) : Shares[i].resume_id = resume_id /\ Shares[i].is_active}

\* C14: the lookup by job answers the most recently created active grant of
\* the job, and nothing when the job has no active grant.
C14_FindMostRecentActive ==
  ret.op = "find" =>
    IF ActiveOf(ret.arg) = {} THEN ret.out = 0
    ELSE ret.out = Shares[CHOOSE i \in ActiveOf(ret.arg) :
                            \A j \in ActiveOf(ret.arg) : i >= j].share_token

\* C15: applied to the same grants, every operation of the in-memory backend
\* answers what the operation of the database backend answers and leaves the
\* same grants behind.
C15_BackendsEquivalent ==
  /\ \A t \in Tokens :
        /\ get_share_inmemory(Shares, t) = get_share_db(Shares, t)
        /\ is_share_valid_inmemory(Shares, t, now) = is_share_valid_db(Shares, t, now)
        /\ increment_access_inmemory(Shares, t) = increment_access_db(Shares, t)
        /\ revoke_share_inmemory(Shares, t) = revoke_share_db(Shares, t)
  /\ \A j \in Jobs :
        /\ get_share_token_by_resume_id_inmemory(Shares, j)
             = get_share_token_by_resume_id_db(Shares, j)
        /\ \A d \in ExpiresIn :
             create_share_inmemory(Shares, Len(Shares) + 1, j, d, now)
               = create_share_db(Shares, Len(Shares) + 1, j, d, now)

\* The elements of a list.
Range(list) == {list[n] : n \in 1..Len(list)}

\* A record up to normalisation: an empty or missing contact field is None, a
\* missing skill category is empty, a category is the set of its skills.
canonical(record) ==
  [personal_info     |-> [k \in PersonalKeys |->
                            OrNone(dict_get(record.personal_info, k, None))],
   work_experience   |-> record.work_experience,
   education         |-> record.education,
   skills            |-> [c \in Range(SkillCategories) |->
                            Range(dict_get(record.skills, c, << >>))],
   confidence_scores |-> record.confidence_scores]

\* The record passes the schema of the database backend.
is_well_formed(record) == ParsedData(normalize_nlp_output_to_parsed_data(record)).ok

\* C16: a get of a job id that directly follows a successful save of a
\* well-formed record under that id returns a record equal, after
\* normalisation, to the one saved (contact fields, work experience,
\* education, the skills of every category and the confidence scores), in
\* the in-memory backend and in the database backend.
C16_SaveThenGetRoundTrip ==
  [][(/\ answer.op = "save_parsed_data"
      /\ answer.out.ok
      /\ is_well_formed(answer.arg)
      /\ answer'.op = "get_parsed_data"
      /\ answer'.id = answer.id)
     => (/\ answer'.out.ok
         /\ answer'.out.val # Missing
         /\ canonical(answer'.out.val) = canonical(answer.arg))]_vars

\* The backend a step leaves alone.
DatabaseUntouched ==
  parsed_resume_data' = parsed_resume_data /\ processing_status' = processing_status
MemoryUntouched == resume_store' = resume_store

\* What routing asks of each adapter operation on resume_id when the flag is
\* on: the in-memory backend alone takes an id that is not a UUID, the
\* database alone a UUID.
SaveRouted(resume_id, data) ==
  IF is_valid_uuid(resume_id)
  THEN /\ MemoryUntouched
       /\ answer'.out.ok =>
            Len(parsed_resume_data'[resume_id]) = Len(parsed_resume_data[resume_id]) + 1
  ELSE DatabaseUntouched /\ resume_store'[resume_id] = data

GetRouted(resume_id) ==
  IF is_valid_uuid(resume_id)
  THEN (answer'.out.ok /\ answer'.out.val = Missing)
         <=> Len(parsed_resume_data[resume_id]) = 0
  ELSE answer'.out = Ok(resume_store[resume_id])

UpdateRouted(resume_id, data) ==
  IF is_valid_uuid(resume_id)
  THEN MemoryUntouched
  ELSE /\ DatabaseUntouched
       /\ resume_store[resume_id] # Missing => resume_store'[resume_id] = data

DeleteRouted(resume_id) ==
  IF is_valid_uuid(resume_id)
  THEN MemoryUntouched /\ parsed_resume_data'[resume_id] = << >>
  ELSE DatabaseUntouched /\ resume_store'[resume_id] = Missing

\* C17: with the database flag on, each of save, get, update and delete is
\* applied to the in-memory backend and leaves the database untouched when
\* the job id is not a well-formed UUID, and is applied to the database when
\* the id is well-formed.
C17_RoutedByIdAndFlag ==
  [][use_db =>
       /\ \A i \in ResumeIds, r \in ParsedInputs : SaveParsedData(i, r) => SaveRouted(i, r)
       /\ \A i \in ResumeIds : GetParsedData(i) => GetRouted(i)
       /\ UpdateResumeWrite => UpdateRouted(upd.id, upd.current_data)
       /\ \A i \in ResumeIds : DeleteParsedData(i) => DeleteRouted(i)]_vars

\* The valid record that keeps every field of normalized_data that validates:
\* a field that does not is left at its default.
Salvaged(normalized_data) ==
  [k \in ParsedDataFields |->
     IF k \in OptionalStrFields /\ normalized_data[k].type \notin {"str", "NoneType"}
     THEN field_default(k)
     ELSE normalized_data[k]]

\* The row of a record salvaged from data.
SalvagedRow(data) ==
  parsed_data_to_jsonb(Salvaged(normalize_nlp_output_to_parsed_data(data)))

\* C18: a save or an update of a record that fails the validation of the
\* database backend does not raise: the call completes, and the row written
\* holds every field of the record that validates.
C18_MalformedRecordIsSalvaged ==
  [][/\ \A i \in ResumeIds, r \in ParsedInputs :
          (SaveParsedData(i, r) /\ routed_to_db(i) /\ ~is_well_formed(r))
            => /\ answer'.out.ok
               /\ parsed_resume_data'[i] = Append(parsed_resume_data[i], SalvagedRow(r))
     /\ (/\ UpdateResumeWrite
         /\ routed_to_db(upd.id)
         /\ Len(parsed_resume_data[upd.id]) = 1
         /\ ~is_well_formed(upd.current_data))
          => /\ answer'.out.status_code = 200
             /\ parsed_resume_data'[upd.id] = <<SalvagedRow(upd.current_data)>>]_vars

\* What the claim asks of an update of current with the fields of
\* update_data: lists replaced, dicts merged key by key, the rest kept.
Merged(current, update_data) ==
  [f \in DOMAIN current |->
     IF f \notin DOMAIN update_data THEN current[f]
     ELSE IF f \in {"personal_info", "skills"}
          THEN [k \in DOMAIN current[f] \cup DOMAIN update_data[f] |->
                  IF k \in DOMAIN update_data[f] THEN update_data[f][k] ELSE current[f][k]]
          ELSE update_data[f]]

\* The record a get of resume_id returns in this state and in the next one.
ReadBack(resume_id) ==
  adapter_get_parsed_data(use_db, resume_store, parsed_resume_data, resume_id)
ReadBackNext(resume_id) ==
  adapter_get_parsed_data(use_db, resume_store', parsed_resume_data', resume_id)

\* An update of resume_id with update_data has been applied to the record
\* stored before the step.
UpdateApplied(resume_id, update_data) ==
  /\ answer'.out.status_code = 200
  /\ ReadBackNext(resume_id).ok
  /\ ReadBackNext(resume_id).val # Missing
  /\ canonical(ReadBackNext(resume_id).val)
       = canonical(Merged(ReadBack(resume_id).val, update_data))

\* C19: an update of an existing record with a well-formed request replaces
\* work_experience and education wholesale, merges personal_info and skills
\* key by key, and keeps every field not supplied; the record read back
\* afterwards equals that merge, in both backends.  With the database flag
\* on the update is the write of a request whose read is still current.
C19_UpdateMergesSuppliedFields ==
  [][/\ \A i \in ResumeIds, q \in UpdateRequests :
          (/\ ~use_db
           /\ UpdateResume(i, q)
           /\ resume_store[i] # Missing
           /\ is_well_formed(Merged(resume_store[i], q)))
            => UpdateApplied(i, q)
     /\ (/\ UpdateResumeWrite
         /\ ReadBack(upd.id).ok
         /\ ReadBack(upd.id).val # Missing
         /\ Merged(ReadBack(upd.id).val, upd.arg) = upd.current_data
         /\ is_well_formed(upd.current_data))
          => UpdateApplied(upd.id, upd.arg)]_vars

\* No record is stored for resume_id in the backend the adapter uses for it.
NoRecord(resume_id) ==
  IF routed_to_db(resume_id) THEN Len(parsed_resume_data[resume_id]) = 0
  ELSE resume_store[resume_id] = Missing

\* Neither backend changes in the step.
NothingStored == MemoryUntouched /\ DatabaseUntouched

\* C20: an update of a job id that has no stored record fails with NotFound
\* and changes nothing: update_parsed_resume returns False and the database
\* update returns None, each leaving its backend as it was, and the update
\* endpoint answers 404, creates no record and leaves every record stored.
C20_UpdateOfMissingIsNotFound ==
  /\ [](\A i \in ResumeIds, r \in ParsedInputs :
          /\ resume_store[i] = Missing
               => update_parsed_resume(resume_store, i, r)
                    = [store |-> resume_store, out |-> FALSE]
          /\ (Len(parsed_resume_data[i]) = 0 /\ is_well_formed(r))
               => db_update_parsed_data(parsed_resume_data, i,
                                        ParsedData(normalize_nlp_output_to_parsed_data(r)).val)
                    = [table |-> parsed_resume_data, out |-> Ok(Missing)])
  /\ [][/\ \A i \in ResumeIds, q \in UpdateRequests :
             (UpdateResume(i, q) /\ NoRecord(i))
               => (answer'.out = NotFound /\ NothingStored /\ upd' = upd)
        /\ (UpdateResumeWrite /\ NoRecord(upd.id))
             => (answer'.out = NotFound /\ NothingStored)]_vars

\* The endpoint has answered 404 for an id without a record while the other
\* id has one.
C20_Witness ==
  /\ answer.op = "update_resume"
  /\ answer.out = NotFound
  /\ NoRecord(answer.id)
  /\ \E j \in ResumeIds \ {answer.id} : ~NoRecord(j)

\* NoRecord(resume_id) in the state after the step.
NoRecordNext(resume_id) ==
  IF routed_to_db(resume_id) THEN Len(parsed_resume_data'[resume_id]) = 0
  ELSE resume_store'[resume_id] = Missing

\* C21: delete returns true exactly when a record of the job id was stored
\* immediately before the call, in both backends, and leaves no record of
\* the id behind, so that a get of it is absent and a second delete returns
\* false.
C21_DeleteReportsPriorExistence ==
  [][\A i \in ResumeIds :
       DeleteParsedData(i)
         => /\ answer'.out.ok
            /\ answer'.out.val <=> ~NoRecord(i)
            /\ NoRecordNext(i)]_vars

\* The position of a stored status in the life of a job: no row, waiting,
\* processing, finished.
StatusRank(status) ==
  CASE status = "none" -> 0
    [] status \in {"pending", "queued"} -> 1
    [] status = "processing" -> 2
    [] OTHER -> 3

\* A status stays what it is or moves to a later position; the two finished
\* statuses have the same position, so neither turns into the other.
Forward(before, after) ==
  before = after \/ StatusRank(before) < StatusRank(after)

EmptyStructure ==
  [personal_info     |-> [full_name    |-> Str(""),
                          linkedin_url |-> Str(""),
                          summary      |-> Str("")],
   work_experience   |-> << >>,
   education         |-> << >>,
   skills            |-> [technical |-> << >>, soft_skills |-> << >>,
                          certifications |-> << >>],
   confidence_scores |-> [skills |-> 0]]

\* The dict a run carries as its record: the output of extract_entities or
\* of enhance_with_ai has categorised skills and a score per section.
RecordOf(data) ==
  IF data \in {"nlp_record", "ai_record"} THEN CategorisedRecord ELSE EmptyStructure

\* What get(RunJob) returns once the run has saved its record: the dict kept
\* by core.storage, or what StorageAdapter.get_parsed_data rebuilds from the
\* row StorageAdapter.save_parsed_data wrote for the record.
get_after_run ==
  IF use_db
  THEN LET saved == adapter_save_parsed_data(TRUE, resume_store, parsed_resume_data,
                                             processing_status, RunId,
                                             RecordOf(db_parsed[1].data))
       IN adapter_get_parsed_data(TRUE, saved.store, saved.table, RunId)
  ELSE Ok(RecordOf(mem_store))

\* C23: COMPLETE is on the bus only once the record is persisted, the record
\* it carries is the one persisted, and a get of the job id then returns a
\* record equal to it after normalisation.
C23_CompleteOnlyAfterPersisted ==
  \A k \in 1..Len(published) :
    published[k].stage = "complete" =>
      /\ Persisted
      /\ get_parsed_data = published[k].data
      /\ get_after_run.ok
      /\ get_after_run.val # Missing
      /\ canonical(get_after_run.val) = canonical(RecordOf(published[k].data))

\* The place of a stage in the order of a run.
StageOrder(stage) ==
  CASE stage = "text_extraction" -> 1
    [] stage = "nlp_parsing"     -> 2
    [] stage = "ai_enhancement"  -> 3
    [] stage = "complete"        -> 4
    [] OTHER                     -> 5

\* No event of an earlier stage after an event of a later one, and ERROR
\* only as the last event.
EventsInStageOrder ==
  \A i, j \in 1..Len(published) :
    i < j => /\ published[i].stage # "error"
             /\ published[j].stage # "error"
                  => StageOrder(published[i].stage) <= StageOrder(published[j].stage)

\* The step is the work of a stage: the last event before it and the event
\* sent right after it are events of that stage.
Bracketed(stage) ==
  /\ Len(published) > 0
  /\ LastEvent.stage = stage
  /\ pc' \in SendPoints
  /\ EventAt(pc').stage = stage

\* C24: the events of a run follow the order text extraction, NLP parsing,
\* AI enhancement, COMPLETE; the work of a stage starts only when the work of
\* the stage before it has finished, and is preceded and followed by an event
\* of its stage; nothing is broadcast after ERROR.
C24_EventsFollowStageOrder ==
  [][/\ EventsInStageOrder'
     /\ ExtractText => Bracketed("text_extraction")
     /\ ExtractEntities
          => /\ Bracketed("nlp_parsing")
             /\ ProgressUpdate("text_extraction", 100) \in Range(published)
     /\ EnhanceWithAi
          => /\ Bracketed("ai_enhancement")
             /\ ProgressUpdate("nlp_parsing", 100) \in Range(published)
             /\ nlp_out = parsed_data]_vars

\* A run went through the three stages and ended with COMPLETE.
C24_Witness ==
  /\ pc = "returned"
  /\ Broadcast("ai_enhancement")
  /\ LastEvent.stage = "complete"

\* C25: when the text that stage 1's own extraction gives has at least
\* MIN_TEXT_LENGTH characters, the OCR fallback is not invoked, and the run,
\* if no stage and no storage operation fails, ends by returning with
\* COMPLETE as its last event.
C25_SufficientTextCompletes ==
  regular_text >= MIN_TEXT_LENGTH =>
    /\ ocr = "not_called"
    /\ raw_text = regular_text
    /\ (RunEnded /\ fatal = "none") =>
         /\ pc = "returned"
         /\ Broadcast("complete")
         /\ LastEvent.stage = "complete"

\* The run is past the point at which stage 3 runs or is skipped.
PastStage3 == pc \in {"save", "save2", "s4", "returned"}

\* C26: in a run with AI enhancement disabled the enhancer is not called, the
\* record saved, persisted and returned is the output of stage 2, and the
\* skipped stage has been reported by an event of the AI enhancement stage
\* and not by ERROR.
C26_DisabledAiPassesThrough ==
  ~enable_ai =>
    /\ ai = "not_called"
    /\ enhanced_data = "none"
    /\ PastStage3 => parsed_data = nlp_out
    /\ Persisted => get_parsed_data = nlp_out
    /\ pc = "returned" => result = nlp_out
    /\ PastStage3 => /\ Broadcast("ai_enhancement")
                     /\ ~Broadcast("error")

\* The submission that started task i has returned its acknowledgment.
Acknowledged(i) ==
  /\ up[tasks[i].id].pc = "done"
  /\ up[tasks[i].id].resp = Accepted(tasks[i].id, "processing")

\* C27: the run of a submitted job starts only after its submission has
\* returned the acknowledgment, and no step of a run changes the answer of
\* a submission: the acknowledgment of a new file is the same whatever the
\* run does.
C27_AcknowledgedBeforeAnyStage ==
  [][/\ \A i \in 1..Len(tasks) : TaskRun(i) => Acknowledged(i) /\ up' = up
     /\ \A r \in Requests : up[r].pc = "done" => up'[r] = up[r]]_vars

\* The run of an acknowledged submission is over.
C27_Witness ==
  \E i \in 1..Len(tasks) : tasks[i].st = "done" /\ Acknowledged(i)

\* C28: no job id of the registry maps to an empty set of subscribers after
\* any step of a connect, a disconnect or a broadcast, and disconnect is
\* idempotent: for a channel that is not registered, or a job id that is not
\* in the registry, it changes nothing, and a second disconnect changes
\* nothing more than the first.
C28_NoEmptySubscriberSet ==
  [][/\ \A k \in DOMAIN active_connections' : active_connections'[k] # {}
     /\ \A c \in DOMAIN ws :
          /\ (/\ EndpointDisconnect(c)
              /\ (RunJob \notin DOMAIN active_connections
                    \/ c \notin active_connections[RunJob]))
               => active_connections' = active_connections
          /\ disconnect(disconnect(active_connections, c, RunJob), c, RunJob)
               = disconnect(active_connections, c, RunJob)]_vars

\* A channel was registered, its endpoint has called disconnect, and the job
\* id is gone from the registry.
C28_Witness ==
  \E c \in DOMAIN ws :
    /\ ws[c].st \in {"closed", "broken"}
    /\ ~ws[c].ep
    /\ RunJob \notin DOMAIN active_connections

\* =====================================================================
\* The bus with several observed subscribers, while a run sends the events
\* that precede the work of stage 1 (and, when a send raises, the events of
\* its handlers)
\* =====================================================================

InitBusSpec ==
  /\ active_connections = << >>
  /\ ws = [c \in Subscribers |-> [st |-> "fresh", ep |-> FALSE]]
  /\ bc = BcIdle
  /\ inbox = [c \in Subscribers |-> << >>]
  /\ pc = "idle"
  /\ exc = "none"
  /\ enable_ai = TRUE
  /\ raw_text = -1
  /\ parsed_data = "none"
  /\ enhanced_data = "none"
  /\ published = << >>
  /\ result = "none"
  /\ regular_text = -1
  /\ ocr = "not_called"
  /\ nlp_out = "none"
  /\ ai = "not_called"
  /\ file_ext = "unset"
  /\ fatal = "none"
  /\ use_db = FALSE
  /\ db_status = "none"
  /\ db_parsed = << >>
  /\ mem_store = "none"
  /\ bg = "pending"
  /\ InitUpload
  /\ InitShare
  /\ InitAdapter

NextBus ==
  \/ \E c \in Subscribers : Connect(c)
  \/ \E c \in Subscribers : Drop(c)
  \/ \E c \in Subscribers : EndpointDisconnect(c)
  \/ BackgroundStart
  \/ PipeSend
  \/ BroadcastResume
  \/ PipeAfterSend

SpecBus == InitBusSpec /\ [][NextBus]_vars

\* The events a client has received after the acknowledgment.
EventsReceived(c) == IF inbox[c] = << >> THEN << >> ELSE Tail(inbox[c])

\* C29: the first message a subscriber receives is the connection
\* acknowledgment, no other message is one, and every event delivered to it
\* is one whose broadcast started when it was already subscribed: an event
\* published before the subscription never reaches it.
C29_AckFirstThenLaterEvents ==
  [][\A c \in DOMAIN inbox :
       /\ inbox'[c] # << >> => inbox'[c][1] = ConnectionEstablished
       /\ \A k \in 1..Len(EventsReceived(c)') :
            EventsReceived(c)'[k] # ConnectionEstablished
       /\ (BroadcastResume /\ inbox'[c] # inbox[c]) => c \in bc.snapshot]_vars

\* The sequence is a run of consecutive entries of published.
IsContiguousIn(events, all) ==
  \E offset \in 0..Len(all) :
    /\ offset + Len(events) <= Len(all)
    /\ \A k \in 1..Len(events) : events[k] = all[offset + k]

\* C30: the events a subscriber has received are in publish order and
\* without duplicates, and those of a subscriber that is still connected are
\* consecutive events of the published sequence.
C30_DeliveredInPublishOrder ==
  \A c \in DOMAIN inbox :
    /\ \A i, j \in 1..Len(EventsReceived(c)) :
         i < j => \E m, n \in 1..Len(published) :
                    /\ m < n
                    /\ published[m] = EventsReceived(c)[i]
                    /\ published[n] = EventsReceived(c)[j]
    /\ ws[c].st = "open" => IsContiguousIn(EventsReceived(c), published)

\* C31: in every run, failed or not, the percent values of the events of one
\* stage never decrease in publish order, and every percent lies in 0..100.
C31_PercentMonotoneWithinStage ==
  /\ \A k \in 1..Len(published) : published[k].progress \in 0..100
  /\ \A i, j \in 1..Len(published) :
       (i < j /\ published[i].stage = published[j].stage)
         => published[i].progress <= published[j].progress

\* C32: revoke is idempotent: a revoke of a grant that is already inactive
\* leaves the selected store exactly as it was (inactive, access count and
\* expiry unchanged), and applying revoke twice to any stored state gives what
\* one revoke gives; a revoke or an increment_access of a token that no grant
\* holds answers false and changes no grant.
C32_RevokeIsIdempotent ==
  [][/\ (ret'.op = "revoke" /\ get_share(ret'.arg) # NoShare
           /\ ~get_share(ret'.arg).is_active)
          => (ret'.out = TRUE /\ Shares' = Shares)
     /\ ret'.op = "revoke"
          => /\ revoke_share_inmemory(share_store', ret'.arg).store = share_store'
             /\ revoke_share_db(share_table', ret'.arg).store = share_table'
     /\ (ret'.op \in {"revoke", "increment"} /\ get_share(ret'.arg) = NoShare)
          => (ret'.out = FALSE /\ Shares' = Shares)]_vars

\* A revoke answered for a grant that an earlier revoke had made inactive
\* after it was accessed.
C32_Witness ==
  /\ ret.op = "revoke"
  /\ ret.out = TRUE
  /\ ret.arg \in revoked
  /\ ~get_share(ret.arg).is_active
  /\ get_share(ret.arg).access_count = 1
  /\ \E t \in Tokens : get_share(t) = NoShare

\* The access counter of the grant with this token in the selected store.
access_count_of(share_token) == get_share(share_token).access_count

\* C33: a grant is created with access counter 0 and no step decreases the
\* counter of a grant; a public access answered with the record adds exactly
\* one to the counter of its grant and to no other; a rejected public access
\* (not found, revoked, expired, no record) changes no counter.
C33_AccessCountedOnSuccessOnly ==
  [][/\ \A t \in Tokens :
          IF get_share(t) = NoShare
          THEN (get_share(t))' # NoShare => (access_count_of(t))' = 0
          ELSE (access_count_of(t))' >= access_count_of(t)
     /\ \A t \in Tokens :
          (ret'.op = "public" /\ ret'.arg = t /\ ret'.out = "200")
            => /\ (access_count_of(t))' = access_count_of(t) + 1
               /\ \A u \in Tokens \ {t} :
                    get_share(u) # NoShare => (access_count_of(u))' = access_count_of(u)
     /\ (ret'.op = "public" /\ ret'.out # "200") => Shares' = Shares]_vars

\* A public access was answered with the record and is counted.
C33_Witness ==
  /\ ret.op = "public"
  /\ ret.out = "200"
  /\ access_count_of(ret.arg) = 1
  /\ \E t \in Tokens \ {ret.arg} : get_share(t) # NoShare /\ access_count_of(t) = 0

\* C34: with the database backend, in every state in which the stored status
\* of the job is complete, a record of the job is stored and a get returns it:
\* also between the commits inside save and after a failed write of the record.
C34_CompleteImpliesRecordReadable ==
  (use_db /\ db_status = "complete")
    => (Len(db_parsed) > 0 /\ get_parsed_data # "none" /\ get_resume = "200")

\* C35: with the database, however a revoke of the token interleaves with a
\* public access, the access is not answered 410 (expired) when the grant is
\* revoked and its expiry has not passed: the answer is the record or 403.
C35_RevokedNeverReportedExpired ==
  (ret.op = "public" /\ ret.out = "410")
    => ~(/\ ~get_share(ret.arg).is_active
         /\ now <= get_share(ret.arg).expires_at)

\* The records stored for resume_id in the backend the adapter uses for it.
RecordsStored(resume_id) ==
  IF routed_to_db(resume_id) THEN Len(parsed_resume_data[resume_id])
  ELSE IF resume_store[resume_id] = Missing THEN 0 ELSE 1

\* What a get answers once data alone was saved for resume_id.
get_after_single_save(resume_id, data) ==
  LET o == adapter_save_parsed_data(use_db, [i \in ResumeIds |-> Missing],
                                    [i \in ResumeIds |-> << >>],
                                    [i \in ResumeIds |-> "none"], resume_id, data)
  IN  adapter_get_parsed_data(use_db, o.store, o.table, resume_id)

\* C36: save is an upsert in both backends: after any number of saves for a
\* job id, once a save has returned, exactly one record is stored for the id
\* and a get succeeds and returns the record saved last.
C36_SaveIsUpsert ==
  (answer.op = "save_parsed_data" /\ answer.out.ok)
    => LET got == adapter_get_parsed_data(use_db, resume_store, parsed_resume_data,
                                          answer.id)
       IN  /\ RecordsStored(answer.id) = 1
           /\ got.ok
           /\ got.val # Missing
           /\ got = get_after_single_save(answer.id, answer.arg)

\* Every writer has finished with 200.
AllUpdated ==
  \A w \in Writers : puts[w].pc = "done" /\ puts[w].out.status_code = 200

\* The writer whose commit came last.
LastWriter == CHOOSE w \in Writers : \A v \in Writers : puts[v].order <= puts[w].order

\* C37: concurrent updates of one job id are last-writer-wins: once all of
\* them have finished, the stored record is the complete record written by
\* the request that committed last, not a mixture of fields of several
\* requests, and it is not absent.
C37_LastWriterWins ==
  AllUpdated =>
    /\ Len(parsed_resume_data[RunId]) >= 1
    /\ parsed_resume_data[RunId][1] = puts[LastWriter].written

====
